---- MODULE Spec2Model ----
(***************************************************************************)
(* State-machine model of the rezilient auth control plane: the single-    *)
(* snapshot state store (in-memory and Postgres variants), the registry,   *)
(* enrollment, rotation and token services that mutate it, and the audit   *)
(* recorder.  Timestamps are whole numbers (the ISO strings of the source  *)
(* compare exactly like the instants they denote).                         *)
(***************************************************************************)
EXTENDS Integers, Sequences, FiniteSets, TLC

VARIABLES
    storeKind,  \* which ControlPlaneStateStore the control plane was built on
    state,      \* the committed ControlPlaneState snapshot
    version,    \* snapshot row version: the number of committed mutations
    lock,       \* holder of the Postgres row lock (SELECT ... FOR UPDATE)
    clock,      \* Clock.now()
    rng,        \* number of random tokens drawn so far (randomToken is fresh)
    pc,         \* per caller: position inside the running operation
    loc,        \* per caller: locals of the running operation
    work,       \* per caller: workingState of a mutate call in flight
    ops,        \* number of operations started
    hist        \* history of what callers observed (for stating properties)

vars == <<storeKind, state, version, lock, clock, rng, pc, loc, work, ops, hist>>

-----------------------------------------------------------------------------
(* Bounds and input domains *)

MaxOps == 2
MaxTime == 1

Procs == {"p1", "p2"}
NoProc == "none"
StoreKinds == {"memory", "postgres"}
TenantIds == {"t1"}
InstanceIds == {"i1", "i2"}
SourceIds == {"src1", "src2"}
ClientIds == {"c1", "c2"}
TtlChoices == {0}
OverlapChoices == {0}

SERVICE_SCOPES == <<"reg", "rrs">>
TENANT_STATES == {"active", "suspended", "disabled"}
ENTITLEMENT_STATES == {"active", "suspended", "disabled"}
INSTANCE_STATES == {"active", "suspended", "disabled"}

-----------------------------------------------------------------------------
(* Optional values: an absent field is the empty tuple, a present one a    *)
(* one-element tuple.                                                      *)

None == <<>>
Some(x) == <<x>>
IsSet(m) == m # <<>>
Val(m) == m[1]

Put(f, k, v) == [x \in (DOMAIN f) \cup {k} |-> IF x = k THEN v ELSE f[x]]
Has(f, k) == k \in DOMAIN f
EmptyMap == [x \in {} |-> None]

SeqToSet(s) == {s[i] : i \in 1..Len(s)}

\* Array.prototype.find index: the first position holding version id vid, 0 if none
findVersionIndex(versions, vid) ==
    IF \E i \in 1..Len(versions) : versions[i].version_id = vid
    THEN CHOOSE i \in 1..Len(versions) :
            /\ versions[i].version_id = vid
            /\ \A j \in 1..(i - 1) : versions[j].version_id # vid
    ELSE 0

-----------------------------------------------------------------------------
(* Crypto helpers: injective hashing, prefixed identifiers *)

sha256Hex(x) == <<"sha256", x>>
safeEqualHex(a, b) == a = b
svId(n) == <<"sv_", n>>
secretOf(n) == <<"sec_", n>>
enrollCodeOf(n) == <<"enroll_", n>>
codeIdOf(n) == <<"enr_", n>>

\* parseSecretVersionNumber / the reducer body of nextSecretVersion:
\* ids without the sv_ prefix or a numeric tail contribute nothing
parseSecretVersionNumber(vid) ==
    IF Len(vid) = 2 /\ vid[1] = "sv_" /\ vid[2] \in Nat THEN vid[2] ELSE 0

RECURSIVE maxVersionNumber(_)
maxVersionNumber(ids) ==
    IF ids = <<>> THEN 0
    ELSE LET rest == maxVersionNumber(Tail(ids))
             n == parseSecretVersionNumber(Head(ids))
         IN IF n > rest THEN n ELSE rest

nextSecretVersion(existingVersionIds) == svId(maxVersionNumber(existingVersionIds) + 1)

-----------------------------------------------------------------------------
(* The snapshot *)

createEmptyControlPlaneState ==
    [ tenants |-> EmptyMap,
      instances |-> EmptyMap,
      client_id_to_instance |-> EmptyMap,
      enrollment_records |-> EmptyMap,
      code_hash_to_id |-> EmptyMap,
      audit_events |-> <<>>,
      outage_active |-> FALSE ]

\* Outcome of running a mutator on a working copy: ok = returned normally,
\* st = the working copy as the mutator left it, res = value or error.
Return(st, res) == [ok |-> TRUE, st |-> st, res |-> res]
Throw(st, err) == [ok |-> FALSE, st |-> st, res |-> err]

-----------------------------------------------------------------------------
(* Registry: the closures passed to stateStore.mutate *)

scopeRank(s) == IF s = "reg" THEN 1 ELSE IF s = "rrs" THEN 2 ELSE 3

\* Array.from(new Set(services)).sort()
normalizeServices(services) ==
    LET set == SeqToSet(services)
        lt(a, b) == scopeRank(a) < scopeRank(b)
    IN  [i \in 1..Cardinality(set) |->
            CHOOSE x \in set : Cardinality({y \in set : lt(y, x)}) = i - 1]

isServiceScope(v) == v \in SeqToSet(SERVICE_SCOPES)

getCreds(inst) == Val(inst.client_credentials)

createTenantTx(st, input) ==
    IF Has(st.tenants, input.tenant_id) THEN Throw(st, "tenant already exists")
    ELSE IF input.state \notin TENANT_STATES THEN Throw(st, "invalid tenant state")
    ELSE IF input.entitlement_state \notin ENTITLEMENT_STATES
         THEN Throw(st, "invalid entitlement state")
    ELSE LET created == [state |-> input.state,
                         entitlement_state |-> input.entitlement_state]
         IN Return([st EXCEPT !.tenants = Put(st.tenants, input.tenant_id, created)],
                   input.tenant_id)

setTenantStateTx(st, tenantId, stateValue) ==
    IF ~Has(st.tenants, tenantId) THEN Throw(st, "tenant not found")
    ELSE IF stateValue \notin TENANT_STATES THEN Throw(st, "invalid tenant state")
    ELSE Return([st EXCEPT !.tenants[tenantId].state = stateValue], stateValue)

setTenantEntitlementTx(st, tenantId, entitlementState) ==
    IF ~Has(st.tenants, tenantId) THEN Throw(st, "tenant not found")
    ELSE IF entitlementState \notin ENTITLEMENT_STATES
         THEN Throw(st, "invalid entitlement state")
    ELSE Return([st EXCEPT !.tenants[tenantId].entitlement_state = entitlementState],
                entitlementState)

createInstanceTx(st, input) ==
    IF Has(st.instances, input.instance_id) THEN Throw(st, "instance already exists")
    ELSE IF ~Has(st.tenants, input.tenant_id) THEN Throw(st, "tenant not found")
    ELSE IF \E s \in SeqToSet(input.allowed_services) : ~isServiceScope(s)
         THEN Throw(st, "invalid service scope")
    ELSE IF \E i \in DOMAIN st.instances : st.instances[i].source = input.source
         THEN Throw(st, "source mapping already exists")
    ELSE IF input.state \notin INSTANCE_STATES THEN Throw(st, "invalid instance state")
    ELSE LET created == [tenant_id |-> input.tenant_id,
                         source |-> input.source,
                         state |-> input.state,
                         allowed_services |-> normalizeServices(input.allowed_services),
                         client_credentials |-> None]
         IN Return([st EXCEPT !.instances = Put(st.instances, input.instance_id, created)],
                   created.allowed_services)

setInstanceStateTx(st, instanceId, stateValue) ==
    IF ~Has(st.instances, instanceId) THEN Throw(st, "instance not found")
    ELSE IF stateValue \notin INSTANCE_STATES THEN Throw(st, "invalid instance state")
    ELSE Return([st EXCEPT !.instances[instanceId].state = stateValue], stateValue)

setInstanceAllowedServicesTx(st, instanceId, allowedServices) ==
    IF ~Has(st.instances, instanceId) THEN Throw(st, "instance not found")
    ELSE IF \E s \in SeqToSet(allowedServices) : ~isServiceScope(s)
         THEN Throw(st, "invalid service scope")
    ELSE Return([st EXCEPT !.instances[instanceId].allowed_services =
                                normalizeServices(allowedServices)],
                normalizeServices(allowedServices))

\* a version record that does not carry the id it was created for
newSecretVersionUnnumbered(versionId, secretHash, validUntil) ==
    [version_id |-> svId(0), secret_hash |-> secretHash, valid_until |-> validUntil,
     adopted_at |-> None, revoked_at |-> None]

newSecretVersion(versionId, secretHash, validUntil) ==
    [version_id |-> versionId, secret_hash |-> secretHash,
     adopted_at |-> None, revoked_at |-> None, valid_until |-> validUntil]

setInitialCredentialsTx(st, input) ==
    IF ~Has(st.instances, input.instance_id) THEN Throw(st, "instance not found")
    ELSE IF Has(st.client_id_to_instance, input.client_id)
         THEN Throw(st, "client_id already assigned")
    ELSE IF /\ IsSet(st.instances[input.instance_id].client_credentials)
            /\ getCreds(st.instances[input.instance_id]).client_id # input.client_id
         THEN Throw(st, "instance already has credentials with different client_id")
    ELSE LET creds == [client_id |-> input.client_id,
                       current_secret_version_id |-> input.version_id,
                       next_secret_version_id |-> None,
                       secret_versions |->
                           <<newSecretVersion(input.version_id, input.secret_hash, None)>>]
         IN Return([st EXCEPT
                        !.instances[input.instance_id].client_credentials = Some(creds),
                        !.client_id_to_instance =
                            Put(st.client_id_to_instance, input.client_id, input.instance_id)],
                   input.instance_id)

\* a store that refuses a next version while the current one is revoked
addNextRequiringActiveCurrent(st, input) ==
    IF ~Has(st.instances, input.instance_id) THEN Throw(st, "instance not found")
    ELSE IF ~IsSet(st.instances[input.instance_id].client_credentials)
         THEN Throw(st, "instance has no client credentials")
    ELSE LET credentials == getCreds(st.instances[input.instance_id])
             c == findVersionIndex(credentials.secret_versions,
                                   credentials.current_secret_version_id) IN
         IF IsSet(credentials.next_secret_version_id)
         THEN Throw(st, "rotation already in progress")
         ELSE IF c # 0 /\ IsSet(credentials.secret_versions[c].revoked_at)
         THEN Throw(st, "current secret version revoked")
         ELSE IF findVersionIndex(credentials.secret_versions, input.version_id) # 0
         THEN Throw(st, "secret version already exists")
         ELSE LET updated == [credentials EXCEPT
                    !.secret_versions = Append(credentials.secret_versions,
                        newSecretVersion(input.version_id, input.secret_hash,
                                         Some(input.valid_until))),
                    !.next_secret_version_id = Some(input.version_id)]
              IN Return([st EXCEPT !.instances[input.instance_id].client_credentials =
                                        Some(updated)],
                        input.version_id)

addNextSecretVersionTx(st, input) ==
    IF ~Has(st.instances, input.instance_id) THEN Throw(st, "instance not found")
    ELSE IF ~IsSet(st.instances[input.instance_id].client_credentials)
         THEN Throw(st, "instance has no client credentials")
    ELSE LET credentials == getCreds(st.instances[input.instance_id]) IN
         IF IsSet(credentials.next_secret_version_id)
         THEN Throw(st, "rotation already in progress")
         ELSE IF findVersionIndex(credentials.secret_versions, input.version_id) # 0
         THEN Throw(st, "secret version already exists")
         ELSE LET updated == [credentials EXCEPT
                    !.secret_versions = Append(credentials.secret_versions,
                        newSecretVersion(input.version_id, input.secret_hash,
                                         Some(input.valid_until))),
                    !.next_secret_version_id = Some(input.version_id)]
              IN Return([st EXCEPT !.instances[input.instance_id].client_credentials =
                                        Some(updated)],
                        input.version_id)

\* a store that stamps adopted_at on every call
markSecretAdoptedAlways(st, instanceId, versionId, now) ==
    IF ~Has(st.instances, instanceId) THEN Throw(st, "instance not found")
    ELSE IF ~IsSet(st.instances[instanceId].client_credentials)
         THEN Throw(st, "instance has no client credentials")
    ELSE LET credentials == getCreds(st.instances[instanceId])
             k == findVersionIndex(credentials.secret_versions, versionId) IN
         IF k = 0 THEN Throw(st, "secret version not found")
         ELSE Return([st EXCEPT !.instances[instanceId].client_credentials =
                        Some([credentials EXCEPT
                                !.secret_versions[k].adopted_at = Some(now)])],
                     versionId)

markSecretAdoptedTx(st, instanceId, versionId, now) ==
    IF ~Has(st.instances, instanceId) THEN Throw(st, "instance not found")
    ELSE IF ~IsSet(st.instances[instanceId].client_credentials)
         THEN Throw(st, "instance has no client credentials")
    ELSE LET credentials == getCreds(st.instances[instanceId])
             k == findVersionIndex(credentials.secret_versions, versionId) IN
         IF k = 0 THEN Throw(st, "secret version not found")
         ELSE IF ~IsSet(credentials.secret_versions[k].adopted_at)
         THEN Return([st EXCEPT !.instances[instanceId].client_credentials =
                        Some([credentials EXCEPT
                                !.secret_versions[k].adopted_at = Some(now)])],
                     versionId)
         ELSE Return(st, versionId)

\* a promotion that leaves next_secret_version_id in place
promoteKeepingNextPointer(st, instanceId, now) ==
    IF ~Has(st.instances, instanceId) THEN Throw(st, "instance not found")
    ELSE IF ~IsSet(st.instances[instanceId].client_credentials)
         THEN Throw(st, "instance has no client credentials")
    ELSE LET credentials == getCreds(st.instances[instanceId]) IN
         IF ~IsSet(credentials.next_secret_version_id)
         THEN Throw(st, "no next secret version to promote")
         ELSE LET nextId == Val(credentials.next_secret_version_id)
                  n == findVersionIndex(credentials.secret_versions, nextId)
                  oldVersionId == credentials.current_secret_version_id
                  o == findVersionIndex(credentials.secret_versions, oldVersionId) IN
              IF n = 0 THEN Throw(st, "next secret version not found")
              ELSE IF ~IsSet(credentials.secret_versions[n].adopted_at)
              THEN Throw(st, "next secret version not adopted")
              ELSE IF o = 0 THEN Throw(st, "current secret version not found")
              ELSE LET revoked == [credentials.secret_versions EXCEPT
                                        ![o].revoked_at = Some(now)]
                       cleared == [revoked EXCEPT ![n].valid_until = None]
                       updated == [credentials EXCEPT
                                        !.secret_versions = cleared,
                                        !.current_secret_version_id = nextId]
                   IN Return([st EXCEPT !.instances[instanceId].client_credentials =
                                            Some(updated)],
                             [old_secret_version_id |-> oldVersionId,
                              new_secret_version_id |-> nextId])

\* a promotion that leaves the overlap deadline on the promoted version
promoteKeepingValidUntil(st, instanceId, now) ==
    IF ~Has(st.instances, instanceId) THEN Throw(st, "instance not found")
    ELSE IF ~IsSet(st.instances[instanceId].client_credentials)
         THEN Throw(st, "instance has no client credentials")
    ELSE LET credentials == getCreds(st.instances[instanceId]) IN
         IF ~IsSet(credentials.next_secret_version_id)
         THEN Throw(st, "no next secret version to promote")
         ELSE LET nextId == Val(credentials.next_secret_version_id)
                  n == findVersionIndex(credentials.secret_versions, nextId)
                  oldVersionId == credentials.current_secret_version_id
                  o == findVersionIndex(credentials.secret_versions, oldVersionId) IN
              IF n = 0 THEN Throw(st, "next secret version not found")
              ELSE IF ~IsSet(credentials.secret_versions[n].adopted_at)
              THEN Throw(st, "next secret version not adopted")
              ELSE IF o = 0 THEN Throw(st, "current secret version not found")
              ELSE LET revoked == [credentials.secret_versions EXCEPT
                                        ![o].revoked_at = Some(now)]
                       updated == [credentials EXCEPT
                                        !.secret_versions = revoked,
                                        !.current_secret_version_id = nextId,
                                        !.next_secret_version_id = None]
                   IN Return([st EXCEPT !.instances[instanceId].client_credentials =
                                            Some(updated)],
                             [old_secret_version_id |-> oldVersionId,
                              new_secret_version_id |-> nextId])

\* a promotion that does not look at adopted_at
promoteWithoutAdoptionCheck(st, instanceId, now) ==
    IF ~Has(st.instances, instanceId) THEN Throw(st, "instance not found")
    ELSE IF ~IsSet(st.instances[instanceId].client_credentials)
         THEN Throw(st, "instance has no client credentials")
    ELSE LET credentials == getCreds(st.instances[instanceId]) IN
         IF ~IsSet(credentials.next_secret_version_id)
         THEN Throw(st, "no next secret version to promote")
         ELSE LET nextId == Val(credentials.next_secret_version_id)
                  n == findVersionIndex(credentials.secret_versions, nextId)
                  oldVersionId == credentials.current_secret_version_id
                  o == findVersionIndex(credentials.secret_versions, oldVersionId) IN
              IF n = 0 THEN Throw(st, "next secret version not found")
              ELSE IF o = 0 THEN Throw(st, "current secret version not found")
              ELSE LET revoked == [credentials.secret_versions EXCEPT
                                        ![o].revoked_at = Some(now)]
                       cleared == [revoked EXCEPT ![n].valid_until = None]
                       updated == [credentials EXCEPT
                                        !.secret_versions = cleared,
                                        !.current_secret_version_id = nextId,
                                        !.next_secret_version_id = None]
                   IN Return([st EXCEPT !.instances[instanceId].client_credentials =
                                            Some(updated)],
                             [old_secret_version_id |-> oldVersionId,
                              new_secret_version_id |-> nextId])

\* a promotion that leaves the old current version unrevoked
promoteWithoutRevokingOld(st, instanceId, now) ==
    IF ~Has(st.instances, instanceId) THEN Throw(st, "instance not found")
    ELSE IF ~IsSet(st.instances[instanceId].client_credentials)
         THEN Throw(st, "instance has no client credentials")
    ELSE LET credentials == getCreds(st.instances[instanceId]) IN
         IF ~IsSet(credentials.next_secret_version_id)
         THEN Throw(st, "no next secret version to promote")
         ELSE LET nextId == Val(credentials.next_secret_version_id)
                  n == findVersionIndex(credentials.secret_versions, nextId)
                  oldVersionId == credentials.current_secret_version_id
                  o == findVersionIndex(credentials.secret_versions, oldVersionId) IN
              IF n = 0 THEN Throw(st, "next secret version not found")
              ELSE IF ~IsSet(credentials.secret_versions[n].adopted_at)
              THEN Throw(st, "next secret version not adopted")
              ELSE IF o = 0 THEN Throw(st, "current secret version not found")
              ELSE LET cleared == [credentials.secret_versions EXCEPT
                                        ![n].valid_until = None]
                       updated == [credentials EXCEPT
                                        !.secret_versions = cleared,
                                        !.current_secret_version_id = nextId,
                                        !.next_secret_version_id = None]
                   IN Return([st EXCEPT !.instances[instanceId].client_credentials =
                                            Some(updated)],
                             [old_secret_version_id |-> oldVersionId,
                              new_secret_version_id |-> nextId])

promoteNextSecretTx(st, instanceId, now) ==
    IF ~Has(st.instances, instanceId) THEN Throw(st, "instance not found")
    ELSE IF ~IsSet(st.instances[instanceId].client_credentials)
         THEN Throw(st, "instance has no client credentials")
    ELSE LET credentials == getCreds(st.instances[instanceId]) IN
         IF ~IsSet(credentials.next_secret_version_id)
         THEN Throw(st, "no next secret version to promote")
         ELSE LET nextId == Val(credentials.next_secret_version_id)
                  n == findVersionIndex(credentials.secret_versions, nextId)
                  oldVersionId == credentials.current_secret_version_id
                  o == findVersionIndex(credentials.secret_versions, oldVersionId) IN
              IF n = 0 THEN Throw(st, "next secret version not found")
              ELSE IF ~IsSet(credentials.secret_versions[n].adopted_at)
              THEN Throw(st, "next secret version not adopted")
              ELSE IF o = 0 THEN Throw(st, "current secret version not found")
              ELSE LET revoked == [credentials.secret_versions EXCEPT
                                        ![o].revoked_at = Some(now)]
                       cleared == [revoked EXCEPT ![n].valid_until = None]
                       updated == [credentials EXCEPT
                                        !.secret_versions = cleared,
                                        !.current_secret_version_id = nextId,
                                        !.next_secret_version_id = None]
                   IN Return([st EXCEPT !.instances[instanceId].client_credentials =
                                            Some(updated)],
                             [old_secret_version_id |-> oldVersionId,
                              new_secret_version_id |-> nextId])

\* a revoke that leaves the next-version pointer in place
revokeKeepingNext(st, instanceId, versionId, now) ==
    IF ~Has(st.instances, instanceId) THEN Throw(st, "instance not found")
    ELSE IF ~IsSet(st.instances[instanceId].client_credentials)
         THEN Throw(st, "instance has no client credentials")
    ELSE LET credentials == getCreds(st.instances[instanceId])
             k == findVersionIndex(credentials.secret_versions, versionId) IN
         IF k = 0 THEN Throw(st, "secret version not found")
         ELSE LET revoked == [credentials EXCEPT !.secret_versions[k].revoked_at = Some(now)]
              IN Return([st EXCEPT !.instances[instanceId].client_credentials =
                                        Some(revoked)],
                        versionId)

revokeSecretVersionTx(st, instanceId, versionId, now) ==
    IF ~Has(st.instances, instanceId) THEN Throw(st, "instance not found")
    ELSE IF ~IsSet(st.instances[instanceId].client_credentials)
         THEN Throw(st, "instance has no client credentials")
    ELSE LET credentials == getCreds(st.instances[instanceId])
             k == findVersionIndex(credentials.secret_versions, versionId) IN
         IF k = 0 THEN Throw(st, "secret version not found")
         ELSE LET revoked == [credentials EXCEPT !.secret_versions[k].revoked_at = Some(now)]
                  updated == IF credentials.next_secret_version_id = Some(versionId)
                             THEN [revoked EXCEPT !.next_secret_version_id = None]
                             ELSE revoked
              IN Return([st EXCEPT !.instances[instanceId].client_credentials =
                                        Some(updated)],
                        versionId)

-----------------------------------------------------------------------------
(* Audit recorder *)

AuditEvent(type, instanceId, detail) ==
    [event_type |-> type, instance_id |-> instanceId, detail |-> detail]

\* Metadata values: strings, arrays and objects.  A key is the tuple of the
\* words that its underscores separate, so that "contains" is a test on
\* words.
Str(x) == [kind |-> "string", s |-> x, items |-> <<>>, fields |-> <<>>]
Arr(items) == [kind |-> "array", s |-> "", items |-> items, fields |-> <<>>]
Obj(fields) == [kind |-> "object", s |-> "", items |-> <<>>, fields |-> fields]

SENSITIVE_KEY_SNIPPETS == {<<"secret">>, <<"enrollment", "code">>, <<"token">>}

\* key.toLowerCase()
toLowerCase(key) ==
    [i \in 1..Len(key) |->
        CASE key[i] = "SECRET" -> "secret"
          [] key[i] = "Client" -> "client"
          [] OTHER -> key[i]]

\* loweredKey.includes(snippet)
includes(loweredKey, snippet) ==
    \E from \in 1..Len(loweredKey) :
        /\ from + Len(snippet) - 1 <= Len(loweredKey)
        /\ SubSeq(loweredKey, from, from + Len(snippet) - 1) = snippet

isSensitive(key) ==
    \E snippet \in SENSITIVE_KEY_SNIPPETS : includes(toLowerCase(key), snippet)

RECURSIVE sanitizeMetadataValue(_)
sanitizeMetadataValue(value) ==
    IF value.kind = "array"
    THEN Arr([i \in 1..Len(value.items) |-> sanitizeMetadataValue(value.items[i])])
    ELSE IF value.kind = "object"
    THEN Obj([key \in DOMAIN value.fields |->
                IF isSensitive(key) THEN Str("[REDACTED]")
                ELSE sanitizeMetadataValue(value.fields[key])])
    ELSE value

\* a recorder that pushes every event twice
recordTwiceTx(st, event) ==
    Return([st EXCEPT !.audit_events = Append(Append(st.audit_events, event), event)],
           event.event_type)

\* the closure of AuditService.record: push the event
recordTx(st, event) ==
    Return([st EXCEPT !.audit_events = Append(st.audit_events, event)], event.event_type)

-----------------------------------------------------------------------------
(* State store *)

Idle == [op |-> "idle"]
NoWork == [active |-> FALSE]

\* a read that shows the version pointers of an uncommitted working copy
\* over the committed secret versions
readUncommittedPointers ==
    IF \E q \in Procs : work[q].active
    THEN LET q == CHOOSE r \in Procs : work[r].active
             working == work[q].st
             torn(i) ==
                IF /\ Has(working.instances, i)
                   /\ IsSet(state.instances[i].client_credentials)
                   /\ IsSet(working.instances[i].client_credentials)
                THEN [state.instances[i] EXCEPT !.client_credentials =
                        Some([getCreds(state.instances[i]) EXCEPT
                            !.current_secret_version_id =
                                getCreds(working.instances[i]).current_secret_version_id,
                            !.next_secret_version_id =
                                getCreds(working.instances[i]).next_secret_version_id])]
                ELSE state.instances[i]
         IN [state EXCEPT !.instances = [i \in DOMAIN state.instances |-> torn(i)]]
    ELSE state

\* read(): a deep copy of the committed snapshot
read == state

\* postgres: BEGIN; SELECT ... FOR UPDATE blocks while another transaction
\* holds the row.  memory: the clone is taken at once, nothing blocks.
canBeginMutate == storeKind = "memory" \/ lock = NoProc

\* a store that keeps the working copy of a mutator that threw
keepWorkingCopyAfterThrow(committed, working) == working

\* what the store holds after a mutator threw: memory skips the
\* assignment, postgres rolls back
snapshotAfterThrow(committed, working) == committed

\* A caller whose operation threw holds the error until it is delivered.
failedLoc(l, err) == [op |-> l.op, input |-> l.input, err |-> err]

\* mutate(mutator), first half: take the working copy and run the mutator on
\* it (`out` is the outcome).  On normal return the working copy is held
\* until the commit step; on throw nothing is written and the error
\* propagates to the caller.
mutateBegin(p, out, afterPc, okLoc) ==
    /\ canBeginMutate
    /\ UNCHANGED version
    /\ IF out.ok
       THEN /\ work' = [work EXCEPT ![p] =
                    [active |-> TRUE, st |-> out.st, base |-> version,
                     next |-> afterPc]]
            /\ lock' = IF storeKind = "postgres" THEN p ELSE lock
            /\ pc' = [pc EXCEPT ![p] = "commit"]
            /\ loc' = [loc EXCEPT ![p] = okLoc]
            /\ UNCHANGED state
       ELSE /\ state' = snapshotAfterThrow(state, out.st)
            /\ pc' = [pc EXCEPT ![p] = "failed"]
            /\ loc' = [loc EXCEPT ![p] = failedLoc(okLoc, out.res)]
            /\ UNCHANGED <<work, lock>>

\* what a finished operation leaves in the history
logResult(h, l) ==
    IF l.op = "exchangeEnrollmentCode" /\ l.success
    THEN [h EXCEPT !.exchanged = Append(@, l.input)]
    ELSE IF l.op = "startRotation"
    THEN [h EXCEPT !.started = Append(@, <<l.input.instance_id, l.version_id>>)]
    ELSE h

\* mutate(mutator), second half: this.state = workingState / UPDATE; COMMIT
Commit(p) ==
    /\ pc[p] = "commit"
    /\ state' = work[p].st
    /\ version' = version + 1
    /\ lock' = IF storeKind = "postgres" THEN NoProc ELSE lock
    /\ work' = [work EXCEPT ![p] = NoWork]
    /\ pc' = [pc EXCEPT ![p] = work[p].next]
    /\ IF work[p].next = "idle"
       THEN /\ loc' = [loc EXCEPT ![p] = Idle]
            /\ hist' = logResult(hist, loc[p])
       ELSE UNCHANGED <<loc, hist>>
    /\ UNCHANGED <<storeKind, clock, rng, ops>>

\* the rejected promise reaches the caller
Fail(p) ==
    /\ pc[p] = "failed"
    /\ pc' = [pc EXCEPT ![p] = "idle"]
    /\ loc' = [loc EXCEPT ![p] = Idle]
    /\ UNCHANGED <<storeKind, state, version, lock, clock, rng, work, ops, hist>>

\* AuditService.record: append loc[p].event in its own transaction, then
\* continue at loc[p].after
Audit(p) ==
    /\ pc[p] = "audit"
    /\ mutateBegin(p, recordTx(state, loc[p].event), loc[p].after, loc[p])
    /\ UNCHANGED <<storeKind, clock, rng, ops, hist>>

\* The metadata callers hand to the recorder: the keys of the rotation
\* events, a raw secret, a key in capitals, and sensitive keys inside a
\* nested object and inside an array.
MetadataInputs ==
    {Obj(<<>>),
     Obj(<<"note">> :> Str("n")),
     Obj(<<"client", "secret">> :> Str("sec_1")),
     Obj(<<"Client", "SECRET">> :> Str("sec_1")),
     Obj(<<"secret", "version", "id">> :> Str("sv_1")
         @@ <<"next", "secret", "version", "id">> :> Str("sv_2")
         @@ <<"client", "secret">> :> Str("sec_1")
         @@ <<"overlap", "expires", "at">> :> Str("t1")),
     Obj(<<"details">> :> Obj(<<"access", "token">> :> Str("tok")
                              @@ <<"note">> :> Str("n"))),
     Obj(<<"items">> :> Arr(<<Obj(<<"enrollment", "code">> :> Str("enroll_1")),
                              Str("plain")>>))}

canStart(p) == pc[p] = "idle" /\ ops < MaxOps

\* AuditService.record called with metadata: the event is built with the
\* sanitized metadata and pushed in a transaction
recordEvent(p) ==
    \E metadata \in MetadataInputs :
        /\ canStart(p)
        /\ ops' = ops + 1
        /\ mutateBegin(p,
               recordTx(state, AuditEvent("secret_rotation_completed", "",
                                          sanitizeMetadataValue(metadata))),
               "idle", [op |-> "record", input |-> metadata, after |-> "idle"])
        /\ UNCHANGED <<storeKind, clock, rng, hist>>

\* an operation that is one registry transaction followed by one audit event
registryCall(p, name, input, out, event) ==
    /\ canStart(p)
    /\ ops' = ops + 1
    /\ mutateBegin(p, out, "audit",
                   [op |-> name, input |-> input, event |-> event, after |-> "idle"])
    /\ UNCHANGED <<storeKind, clock, rng, hist>>

ServiceInputs == {<<"rrs", "reg", "rrs">>, <<"reg">>, <<>>}

createTenant(p) ==
    \E tid \in TenantIds :
        LET input == [tenant_id |-> tid, state |-> "active",
                      entitlement_state |-> "active"]
        IN registryCall(p, "createTenant", input, createTenantTx(state, input),
                        AuditEvent("tenant_created", "", <<tid, "active", "active">>))

setTenantState(p) ==
    \E tid \in TenantIds, v \in TENANT_STATES :
        registryCall(p, "setTenantState", <<tid, v>>, setTenantStateTx(state, tid, v),
                     AuditEvent("tenant_state_changed", "", <<tid, v>>))

setTenantEntitlement(p) ==
    \E tid \in TenantIds, v \in ENTITLEMENT_STATES :
        registryCall(p, "setTenantEntitlement", <<tid, v>>,
                     setTenantEntitlementTx(state, tid, v),
                     AuditEvent("tenant_entitlement_changed", "", <<tid, v>>))

createInstance(p) ==
    \E iid \in InstanceIds, tid \in TenantIds, src \in SourceIds, svc \in ServiceInputs :
        LET input == [instance_id |-> iid, tenant_id |-> tid, source |-> src,
                      state |-> "active", allowed_services |-> svc]
        IN registryCall(p, "createInstance", input, createInstanceTx(state, input),
                        AuditEvent("instance_created", iid,
                                   <<src, normalizeServices(svc), "active">>))

setInstanceState(p) ==
    \E iid \in InstanceIds, v \in INSTANCE_STATES :
        registryCall(p, "setInstanceState", <<iid, v>>, setInstanceStateTx(state, iid, v),
                     AuditEvent("instance_state_changed", iid, <<v>>))

setInstanceAllowedServices(p) ==
    \E iid \in InstanceIds, svc \in ServiceInputs :
        registryCall(p, "setInstanceAllowedServices", <<iid, svc>>,
                     setInstanceAllowedServicesTx(state, iid, svc),
                     AuditEvent("instance_services_updated", iid,
                                <<normalizeServices(svc)>>))

\* RegistryService.setInitialCredentials called directly: no audit event
setInitialCredentials(p) ==
    \E iid \in InstanceIds, cid \in ClientIds :
        LET input == [instance_id |-> iid, client_id |-> cid, version_id |-> svId(1),
                      secret_hash |-> sha256Hex(secretOf(rng))]
        IN /\ canStart(p)
           /\ ops' = ops + 1
           /\ rng' = rng + 1
           /\ mutateBegin(p, setInitialCredentialsTx(state, input), "idle",
                          [op |-> "setInitialCredentials", input |-> input])
           /\ UNCHANGED <<storeKind, clock, hist>>

\* FixedClock.advanceSeconds / the passing of time
Tick ==
    /\ clock < MaxTime
    /\ clock' = clock + 1
    /\ UNCHANGED <<storeKind, state, version, lock, rng, pc, loc, work, ops, hist>>

-----------------------------------------------------------------------------
(* Enrollment *)

MaxClientIdAttempts == 10

\* the ten random client ids one exchange draws, in order
DrawSeqs == {[i \in 1..MaxClientIdAttempts |-> IF i % 2 = 1 THEN a ELSE b] :
                a \in ClientIds, b \in ClientIds}

\* a client id taken from the first draw without looking at the index
firstDrawnClientId(st, draws) == Some(draws[1])

\* generateUniqueClientId: the first draw absent from the index, None when all collide
generateUniqueClientId(st, draws) ==
    IF \E i \in 1..Len(draws) : ~Has(st.client_id_to_instance, draws[i])
    THEN Some(draws[CHOOSE i \in 1..Len(draws) :
                /\ ~Has(st.client_id_to_instance, draws[i])
                /\ \A j \in 1..(i - 1) : Has(st.client_id_to_instance, draws[j])])
    ELSE None

\* an issue that stores the record without indexing its code hash
issueWithoutHashIndex(st, codeId, record) ==
    Return([st EXCEPT !.enrollment_records = Put(st.enrollment_records, codeId, record)],
           codeId)

\* the closure of issueEnrollmentCode
issueTx(st, codeId, record) ==
    Return([st EXCEPT !.enrollment_records = Put(st.enrollment_records, codeId, record),
                      !.code_hash_to_id = Put(st.code_hash_to_id, record.code_hash, codeId)],
           codeId)

\* a denial that reports every failure as an invalid code
exchangeDeniedAsInvalid(st, reason, codeId, instanceId) ==
    Return(st, [success |-> FALSE, reason_code |-> "denied_invalid_enrollment_code",
                code_id |-> codeId, instance_id |-> instanceId])

exchangeDenied(st, reason, codeId, instanceId) ==
    Return(st, [success |-> FALSE, reason_code |-> reason, code_id |-> codeId,
                instance_id |-> instanceId])

\* the closure of exchangeEnrollmentCode
exchangeTx(st, codeHash, nowIso, draws, clientSecret) ==
    IF ~Has(st.code_hash_to_id, codeHash)
    THEN exchangeDenied(st, "denied_invalid_enrollment_code", None, "")
    ELSE LET codeId == st.code_hash_to_id[codeHash] IN
    IF ~Has(st.enrollment_records, codeId)
    THEN exchangeDenied(st, "denied_invalid_enrollment_code", None, "")
    ELSE LET record == st.enrollment_records[codeId] IN
    IF IsSet(record.used_at)
    THEN exchangeDenied(st, "denied_enrollment_code_used", Some(codeId), record.instance_id)
    ELSE IF nowIso > record.expires_at
    THEN exchangeDenied(st, "denied_enrollment_code_expired", Some(codeId),
                        record.instance_id)
    ELSE IF ~Has(st.instances, record.instance_id)
    THEN exchangeDenied(st, "denied_invalid_enrollment_code", Some(codeId),
                        record.instance_id)
    ELSE IF IsSet(st.instances[record.instance_id].client_credentials)
    THEN exchangeDenied(st, "denied_enrollment_code_used", Some(codeId),
                        record.instance_id)
    ELSE LET drawn == generateUniqueClientId(st, draws) IN
    IF ~IsSet(drawn) THEN Throw(st, "unable to allocate unique client_id")
    ELSE LET clientId == Val(drawn)
             secretVersionId == nextSecretVersion(<<>>)
             creds == [client_id |-> clientId,
                       current_secret_version_id |-> secretVersionId,
                       next_secret_version_id |-> None,
                       secret_versions |->
                           <<newSecretVersion(secretVersionId, sha256Hex(clientSecret),
                                              None)>>]
         IN Return([st EXCEPT
                      !.instances[record.instance_id].client_credentials = Some(creds),
                      !.client_id_to_instance =
                          Put(st.client_id_to_instance, clientId, record.instance_id),
                      !.enrollment_records[codeId].used_at = Some(nowIso)],
                   [success |-> TRUE, reason_code |-> "none", code_id |-> Some(codeId),
                    instance_id |-> record.instance_id, client_id |-> clientId,
                    secret_version_id |-> secretVersionId])

maybeGet(f, k) == IF Has(f, k) THEN Some(f[k]) ELSE None

\* issueEnrollmentCode, the call: registry.getTenant reads the store
issueEnrollmentCode(p) ==
    \E tid \in TenantIds, iid \in InstanceIds, ttl \in TtlChoices :
        /\ canStart(p)
        /\ ops' = ops + 1
        /\ pc' = [pc EXCEPT ![p] = "issue_instance"]
        /\ loc' = [loc EXCEPT ![p] =
                [op |-> "issueEnrollmentCode",
                 input |-> [tenant_id |-> tid, instance_id |-> iid, ttl_seconds |-> ttl],
                 tenant |-> maybeGet(read.tenants, tid)]]
        /\ UNCHANGED <<storeKind, state, version, lock, clock, rng, work, hist>>

\* issueEnrollmentCode resumes: registry.getInstance reads the store
issueReadInstance(p) ==
    /\ pc[p] = "issue_instance"
    /\ pc' = [pc EXCEPT ![p] = "issue_mutate"]
    /\ loc' = [loc EXCEPT ![p] =
            [op |-> loc[p].op, input |-> loc[p].input, tenant |-> loc[p].tenant,
             instance |-> maybeGet(read.instances, loc[p].input.instance_id)]]
    /\ UNCHANGED <<storeKind, state, version, lock, clock, rng, work, ops, hist>>

\* issueEnrollmentCode resumes: mapping check, then the record is stored
issueStore(p) ==
    /\ pc[p] = "issue_mutate"
    /\ LET in == loc[p].input IN
       IF \/ ~IsSet(loc[p].tenant)
          \/ ~IsSet(loc[p].instance)
          \/ Val(loc[p].instance).tenant_id # in.tenant_id
       THEN /\ pc' = [pc EXCEPT ![p] = "failed"]
            /\ loc' = [loc EXCEPT ![p] =
                        failedLoc(loc[p], "tenant/instance mapping not found")]
            /\ UNCHANGED <<state, version, lock, work, rng>>
       ELSE LET codeId == codeIdOf(rng)
                record == [code_hash |-> sha256Hex(enrollCodeOf(rng)),
                           tenant_id |-> in.tenant_id,
                           instance_id |-> in.instance_id,
                           issued_at |-> clock,
                           expires_at |-> clock + in.ttl_seconds,
                           used_at |-> None]
            IN /\ rng' = rng + 1
               /\ mutateBegin(p, issueTx(state, codeId, record), "audit",
                      [op |-> loc[p].op, input |-> in, after |-> "idle",
                       event |-> AuditEvent("enrollment_code_issued", in.instance_id,
                                            <<codeId, record.expires_at>>)])
    /\ UNCHANGED <<storeKind, clock, ops, hist>>

\* enrollment codes that exist: anything else is an unknown code
knownCodes(st) == {id[2] : id \in DOMAIN st.enrollment_records}
UnknownCode == 0 - 1

exchangeEnrollmentCode(p) ==
    \E k \in knownCodes(state) \cup {UnknownCode}, draws \in DrawSeqs :
        LET out == exchangeTx(state, sha256Hex(enrollCodeOf(k)), clock, draws,
                              secretOf(rng))
            event == IF ~out.ok THEN AuditEvent("none", "", <<>>)
                     ELSE IF out.res.success
                     THEN AuditEvent("enrollment_code_exchanged", out.res.instance_id,
                                     <<out.res.code_id, out.res.secret_version_id>>)
                     ELSE AuditEvent("token_mint_denied", out.res.instance_id,
                                     <<out.res.reason_code, "enrollment_exchange",
                                       out.res.code_id>>)
        IN /\ canStart(p)
           /\ ops' = ops + 1
           /\ rng' = IF out.ok /\ out.res.success THEN rng + 1 ELSE rng
           /\ mutateBegin(p, out, "audit",
                  [op |-> "exchangeEnrollmentCode", input |-> k, after |-> "idle",
                   event |-> event,
                   success |-> out.ok /\ out.res.success,
                   reason_code |-> IF out.ok THEN out.res.reason_code ELSE "threw"])
           /\ UNCHANGED <<storeKind, clock, hist>>

-----------------------------------------------------------------------------
(* Rotation *)

\* The (instance, secret version) pairs callers name: every version of every
\* enrolled instance, and one pair each with a version the instance does not
\* have, an instance without credentials and an instance that does not exist.
UnknownInstance == "i0"
UnknownVersion == svId(0)

versionInputs(st) ==
    {<<i, v>> : i \in DOMAIN st.instances, v \in {UnknownVersion}}
    \cup UNION {{<<i, getCreds(st.instances[i]).secret_versions[k].version_id>> :
                    k \in 1..Len(getCreds(st.instances[i]).secret_versions)} :
                i \in {j \in DOMAIN st.instances :
                            IsSet(st.instances[j].client_credentials)}}
    \cup {<<UnknownInstance, UnknownVersion>>}

versionIds(credentials) ==
    [i \in 1..Len(credentials.secret_versions) |->
        credentials.secret_versions[i].version_id]

\* startRotation, the call: registry.getInstance reads the store
startRotation(p) ==
    \E iid \in InstanceIds, overlap \in OverlapChoices :
        /\ canStart(p)
        /\ ops' = ops + 1
        /\ pc' = [pc EXCEPT ![p] = "start_mutate"]
        /\ loc' = [loc EXCEPT ![p] =
                [op |-> "startRotation",
                 input |-> [instance_id |-> iid, overlap_seconds |-> overlap],
                 instance |-> maybeGet(read.instances, iid)]]
        /\ UNCHANGED <<storeKind, state, version, lock, clock, rng, work, hist>>

\* startRotation resumes: preconditions on the instance it read, then
\* registry.addNextSecretVersion in a transaction
startAddNext(p) ==
    /\ pc[p] = "start_mutate"
    /\ LET in == loc[p].input
           instance == loc[p].instance
       IN
       IF ~IsSet(instance) \/ ~IsSet(Val(instance).client_credentials)
       THEN /\ pc' = [pc EXCEPT ![p] = "failed"]
            /\ loc' = [loc EXCEPT ![p] =
                        failedLoc(loc[p], "instance has no credentials to rotate")]
            /\ UNCHANGED <<state, version, lock, work, rng>>
       ELSE IF IsSet(getCreds(Val(instance)).next_secret_version_id)
       THEN /\ pc' = [pc EXCEPT ![p] = "failed"]
            /\ loc' = [loc EXCEPT ![p] = failedLoc(loc[p], "rotation already in progress")]
            /\ UNCHANGED <<state, version, lock, work, rng>>
       ELSE LET nextVersion == nextSecretVersion(versionIds(getCreds(Val(instance))))
                overlapExpiresAt == clock + in.overlap_seconds
                add == [instance_id |-> in.instance_id,
                        version_id |-> nextVersion,
                        secret_hash |-> sha256Hex(secretOf(rng)),
                        valid_until |-> overlapExpiresAt]
            IN /\ rng' = rng + 1
               /\ mutateBegin(p, addNextSecretVersionTx(state, add), "audit",
                      [op |-> loc[p].op, input |-> in, after |-> "idle",
                       version_id |-> nextVersion,
                       event |-> AuditEvent("secret_rotation_started", in.instance_id,
                                            <<nextVersion, overlapExpiresAt>>)])
    /\ UNCHANGED <<storeKind, clock, ops, hist>>

completeRotation(p) ==
    \E iid \in InstanceIds :
        LET out == promoteNextSecretTx(state, iid, clock)
        IN registryCall(p, "completeRotation", [instance_id |-> iid], out,
                AuditEvent("secret_rotation_completed", iid,
                    IF out.ok THEN <<out.res.old_secret_version_id,
                                     out.res.new_secret_version_id>>
                    ELSE <<>>))

revokeSecret(p) ==
    \E in \in versionInputs(state) :
        LET iid == in[1]
            vid == in[2]
        IN registryCall(p, "revokeSecret",
                        [instance_id |-> iid, secret_version_id |-> vid],
                        revokeSecretVersionTx(state, iid, vid, clock),
                        AuditEvent("secret_revoked", iid, <<vid>>))

\* recordAdoption called on its own, the call: registry.getInstance reads
\* the store
recordAdoption(p) ==
    \E in \in versionInputs(state) :
        /\ canStart(p)
        /\ ops' = ops + 1
        /\ pc' = [pc EXCEPT ![p] = "adoption_mark"]
        /\ loc' = [loc EXCEPT ![p] =
                [op |-> "recordAdoption",
                 input |-> [instance_id |-> in[1], secret_version_id |-> in[2]],
                 before |-> maybeGet(read.instances, in[1])]]
        /\ UNCHANGED <<storeKind, state, version, lock, clock, rng, work, hist>>

\* recordAdoption resumes: returns when the version it read is unknown or
\* adopted already, otherwise registry.markSecretAdopted and the audit event
recordAdoptionMark(p) ==
    /\ pc[p] = "adoption_mark"
    /\ LET in == loc[p].input
           before == loc[p].before
           k == IF IsSet(before) /\ IsSet(Val(before).client_credentials)
                THEN findVersionIndex(getCreds(Val(before)).secret_versions,
                                      in.secret_version_id)
                ELSE 0
       IN IF k = 0 \/ IsSet(getCreds(Val(before)).secret_versions[k].adopted_at)
          THEN /\ pc' = [pc EXCEPT ![p] = "idle"]
               /\ loc' = [loc EXCEPT ![p] = Idle]
               /\ UNCHANGED <<state, version, lock, work>>
          ELSE mutateBegin(p,
                    markSecretAdoptedTx(state, in.instance_id, in.secret_version_id,
                                        clock),
                    "audit",
                    [op |-> loc[p].op, input |-> in, after |-> "idle",
                     event |-> AuditEvent("secret_rotation_adopted", in.instance_id,
                                          <<in.secret_version_id>>)])
    /\ UNCHANGED <<storeKind, clock, rng, ops, hist>>

-----------------------------------------------------------------------------
(* Token *)

BadSecret == 0 - 1

\* a secret check that forgets revocation
isSecretActiveIgnoringRevocation(secret, nowIso) ==
    IF IsSet(secret.valid_until) /\ nowIso > Val(secret.valid_until) THEN FALSE
    ELSE TRUE

isSecretActive(secret, nowIso) ==
    IF IsSet(secret.revoked_at) THEN FALSE
    ELSE IF IsSet(secret.valid_until) /\ nowIso > Val(secret.valid_until) THEN FALSE
    ELSE TRUE

\* a match that only ever looks at the current version
matchSecretCurrentOnly(credentials, suppliedSecret, nowIso) ==
    LET suppliedHash == sha256Hex(suppliedSecret)
        c == findVersionIndex(credentials.secret_versions,
                              credentials.current_secret_version_id)
    IN IF /\ c # 0
          /\ isSecretActive(credentials.secret_versions[c], nowIso)
          /\ safeEqualHex(credentials.secret_versions[c].secret_hash, suppliedHash)
       THEN Some([version_id |-> credentials.current_secret_version_id,
                  is_next_version |-> FALSE])
       ELSE None

\* matchSecret: the first active version whose hash equals the supplied one
matchSecret(credentials, suppliedSecret, nowIso) ==
    LET suppliedHash == sha256Hex(suppliedSecret)
        hit(i) == /\ isSecretActive(credentials.secret_versions[i], nowIso)
                  /\ safeEqualHex(credentials.secret_versions[i].secret_hash, suppliedHash)
        n == Len(credentials.secret_versions)
    IN IF \E i \in 1..n : hit(i)
       THEN LET k == CHOOSE i \in 1..n : hit(i) /\ \A j \in 1..(i - 1) : ~hit(j)
            IN Some([version_id |-> credentials.secret_versions[k].version_id,
                     is_next_version |->
                        credentials.next_secret_version_id =
                            Some(credentials.secret_versions[k].version_id)])
       ELSE None

evaluateTenantEligibility(tenant) ==
    IF tenant.state = "suspended" THEN "denied_tenant_suspended"
    ELSE IF tenant.state = "disabled" THEN "denied_tenant_disabled"
    ELSE IF tenant.entitlement_state = "suspended" THEN "denied_tenant_not_entitled"
    ELSE IF tenant.entitlement_state = "disabled" THEN "denied_tenant_not_entitled"
    ELSE "none"

evaluateInstanceEligibility(instance) ==
    IF instance.state = "suspended" THEN "denied_instance_suspended"
    ELSE IF instance.state = "disabled" THEN "denied_instance_disabled"
    ELSE "none"

\* a decision that checks the secret before the allowed services
mintDecisionSecretFirst(request, tenant, instance, nowIso) ==
    IF ~IsSet(tenant) THEN "denied_invalid_client"
    ELSE IF evaluateTenantEligibility(Val(tenant)) # "none"
    THEN evaluateTenantEligibility(Val(tenant))
    ELSE IF evaluateInstanceEligibility(instance) # "none"
    THEN evaluateInstanceEligibility(instance)
    ELSE IF ~IsSet(matchSecret(getCreds(instance), request.client_secret, nowIso))
    THEN "denied_invalid_secret"
    ELSE IF request.service_scope \notin SeqToSet(instance.allowed_services)
    THEN "denied_service_not_allowed"
    ELSE "none"

\* mintToken from the tenant lookup on: eligibility, allowed service, secret
mintDecision(request, tenant, instance, nowIso) ==
    IF ~IsSet(tenant) THEN "denied_invalid_client"
    ELSE IF evaluateTenantEligibility(Val(tenant)) # "none"
    THEN evaluateTenantEligibility(Val(tenant))
    ELSE IF evaluateInstanceEligibility(instance) # "none"
    THEN evaluateInstanceEligibility(instance)
    ELSE IF request.service_scope \notin SeqToSet(instance.allowed_services)
    THEN "denied_service_not_allowed"
    ELSE IF ~IsSet(matchSecret(getCreds(instance), request.client_secret, nowIso))
    THEN "denied_invalid_secret"
    ELSE "none"

knownSecrets(st) ==
    UNION {{getCreds(st.instances[i]).secret_versions[k].secret_hash[2] :
                k \in 1..Len(getCreds(st.instances[i]).secret_versions)} :
           i \in {j \in DOMAIN st.instances : IsSet(st.instances[j].client_credentials)}}

mintLoc(request) == [op |-> "mintToken", input |-> request, after |-> "idle"]

\* denyMint: record token_mint_denied, then return the failure
denyMint(p, l, reasonCode, instanceId) ==
    mutateBegin(p,
        recordTx(state, AuditEvent("token_mint_denied", instanceId, <<reasonCode>>)),
        "idle",
        [op |-> l.op, input |-> l.input, after |-> "idle", success |-> FALSE,
         reason_code |-> reasonCode])

\* The requests callers send: for every enrolled client each secret with one
\* scope its instance allows and one it does not allow (where there is
\* one), and from an unknown client one request with nothing else wrong, one
\* with a foreign grant type and an unknown scope, and one with an unknown
\* scope only (each rejected before the other fields are looked at).
UnknownClient == "c0"

mintRequest(grant, cid, sec, scope) ==
    [grant_type |-> grant, client_id |-> cid, client_secret |-> sec,
     service_scope |-> scope]

scopeInputs(st, cid) ==
    LET scopes == SeqToSet(SERVICE_SCOPES)
        allowed == IF Has(st.instances, st.client_id_to_instance[cid])
                   THEN SeqToSet(st.instances[st.client_id_to_instance[cid]].allowed_services)
                   ELSE {}
        least(S) == {s \in S : \A t \in S : scopeRank(s) <= scopeRank(t)}
    IN least(allowed) \cup least(scopes \ allowed)

mintRequests(st) ==
    UNION {{mintRequest(None, cid, sec, scope) :
                scope \in scopeInputs(st, cid),
                sec \in knownSecrets(st) \cup {secretOf(BadSecret)}} :
           cid \in DOMAIN st.client_id_to_instance}
    \cup {mintRequest(None, UnknownClient, secretOf(BadSecret), "reg"),
          mintRequest(Some("password"), UnknownClient, secretOf(BadSecret), "bogus"),
          mintRequest(Some("client_credentials"), UnknownClient,
                      secretOf(BadSecret), "bogus")}

\* mintToken, the call: grant and scope checks, then the outage flag is read
mintToken(p) ==
    \E request \in mintRequests(state) :
        /\ canStart(p)
        /\ ops' = ops + 1
        /\ IF /\ IsSet(request.grant_type)
              /\ Val(request.grant_type) # "client_credentials"
           THEN denyMint(p, mintLoc(request), "denied_invalid_grant", "")
           ELSE IF ~isServiceScope(request.service_scope)
           THEN denyMint(p, mintLoc(request), "denied_service_not_allowed", "")
           ELSE /\ pc' = [pc EXCEPT ![p] = "mint_outage"]
                /\ loc' = [loc EXCEPT ![p] =
                     [op |-> "mintToken", input |-> request,
                      outage |-> read.outage_active]]
                /\ UNCHANGED <<state, version, lock, work>>
        /\ UNCHANGED <<storeKind, clock, rng, hist>>

\* mintToken resumes with the outage flag: deny, or look the instance up by client id
mintLookupInstance(p) ==
    /\ pc[p] = "mint_outage"
    /\ IF loc[p].outage
       THEN denyMint(p, loc[p], "denied_auth_control_plane_outage", "")
       ELSE LET snapshot == read
                cid == loc[p].input.client_id
                instance ==
                    IF ~Has(snapshot.client_id_to_instance, cid) THEN None
                    ELSE maybeGet(snapshot.instances, snapshot.client_id_to_instance[cid])
            IN /\ pc' = [pc EXCEPT ![p] = "mint_instance"]
               /\ loc' = [loc EXCEPT ![p] =
                    [op |-> "mintToken", input |-> loc[p].input,
                     instance_id |-> IF IsSet(instance)
                                     THEN snapshot.client_id_to_instance[cid] ELSE "",
                     instance |-> instance]]
               /\ UNCHANGED <<state, version, lock, work>>
    /\ UNCHANGED <<storeKind, clock, rng, ops, hist>>

\* mintToken resumes with the instance: deny, or read the tenant
mintLookupTenant(p) ==
    /\ pc[p] = "mint_instance"
    /\ IF ~IsSet(loc[p].instance) \/ ~IsSet(Val(loc[p].instance).client_credentials)
       THEN denyMint(p, loc[p], "denied_invalid_client", "")
       ELSE /\ pc' = [pc EXCEPT ![p] = "mint_tenant"]
            /\ loc' = [loc EXCEPT ![p] =
                    [op |-> "mintToken", input |-> loc[p].input,
                     instance_id |-> loc[p].instance_id,
                     instance |-> Val(loc[p].instance),
                     tenant |-> maybeGet(read.tenants, Val(loc[p].instance).tenant_id)]]
            /\ UNCHANGED <<state, version, lock, work>>
    /\ UNCHANGED <<storeKind, clock, rng, ops, hist>>

mintedLoc(l, matched, nowIso) ==
    [op |-> "mintToken", input |-> l.input, after |-> "idle", success |-> TRUE,
     reason_code |-> "none", instance_id |-> l.instance_id, instance |-> l.instance,
     matched |-> matched, now |-> nowIso]

\* audit.record(token_minted) and the success result
mintSucceed(p, l) ==
    mutateBegin(p,
        recordTx(state, AuditEvent("token_minted", l.instance_id,
                                   <<l.matched.version_id>>)),
        "idle", l)

\* mintToken resumes with the tenant: the decision; a match of the next
\* version calls rotation.recordAdoption, which reads the instance
mintDecide(p) ==
    /\ pc[p] = "mint_tenant"
    /\ LET l == loc[p]
           reason == mintDecision(l.input, l.tenant, l.instance, clock)
           matched == Val(matchSecret(getCreds(l.instance), l.input.client_secret, clock))
       IN IF reason # "none" THEN denyMint(p, l, reason, l.instance_id)
          ELSE IF matched.is_next_version
          THEN /\ pc' = [pc EXCEPT ![p] = "adopt_read"]
               /\ loc' = [loc EXCEPT ![p] =
                    [mintedLoc(l, matched, clock) EXCEPT !.after = "mint_final"]
                        @@ [before |-> maybeGet(read.instances, l.instance_id)]]
               /\ UNCHANGED <<state, version, lock, work>>
          ELSE mintSucceed(p, mintedLoc(l, matched, clock))
    /\ UNCHANGED <<storeKind, clock, rng, ops, hist>>

\* recordAdoption resumes with the instance it read: nothing to do, or
\* registry.markSecretAdopted followed by the secret_rotation_adopted event
mintRecordAdoption(p) ==
    /\ pc[p] = "adopt_read"
    /\ LET l == loc[p]
           vid == l.matched.version_id
           k == IF IsSet(l.before) /\ IsSet(Val(l.before).client_credentials)
                THEN findVersionIndex(getCreds(Val(l.before)).secret_versions, vid)
                ELSE 0
       IN IF k = 0 \/ IsSet(getCreds(Val(l.before)).secret_versions[k].adopted_at)
          THEN mintSucceed(p, [l EXCEPT !.after = "idle"])
          ELSE mutateBegin(p, markSecretAdoptedTx(state, l.instance_id, vid, clock),
                    "audit",
                    [l EXCEPT !.after = "mint_final"]
                        @@ [event |-> AuditEvent("secret_rotation_adopted",
                                                 l.instance_id, <<vid>>)])
    /\ UNCHANGED <<storeKind, clock, rng, ops, hist>>

\* mintToken resumes after recordAdoption
mintFinal(p) ==
    /\ pc[p] = "mint_final"
    /\ mintSucceed(p, [loc[p] EXCEPT !.after = "idle"])
    /\ UNCHANGED <<storeKind, clock, rng, ops, hist>>

\* Tokens and their claims.  A claim value carries its JavaScript type.
str(x) == [t |-> "string", s |-> x, n |-> 0]
num(n) == [t |-> "number", s |-> "", n |-> n]

Issuer == "issuer"
SigningKey == "signing-key"
TokenClockSkew == 0

signJwt(payload, key) == [segments |-> 3, key |-> key, payload |-> payload]

\* verifyJwt: fewer than three segments is malformed, a signature made with
\* another key is invalid, otherwise the payload is handed back
verifyJwt(token, key) ==
    IF token.segments < 3 THEN [valid |-> FALSE, reason |-> "malformed"]
    ELSE IF token.key # key THEN [valid |-> FALSE, reason |-> "invalid_signature"]
    ELSE [valid |-> TRUE, payload |-> token.payload]

\* parseStringClaim / parseNumericClaim: None stands for the throw
parseStringClaim(payload, key) ==
    IF key \in DOMAIN payload /\ payload[key].t = "string"
    THEN Some(payload[key].s) ELSE None

parseNumericClaim(payload, key) ==
    IF key \in DOMAIN payload /\ payload[key].t = "number"
    THEN Some(payload[key].n) ELSE None

\* the claims mintToken signs
tokenClaims(iss, exp, scope) ==
    [iss |-> str(iss), sub |-> str("c1"), aud |-> str(scope), jti |-> str("tok"),
     iat |-> num(0), exp |-> num(exp), service_scope |-> str(scope),
     tenant_id |-> str("t1"), instance_id |-> str("i1"), source |-> str("src1")]

\* The tokens callers present: minted ones for each scope and expiry, and
\* one that is cut short, one signed with another key, one without most
\* claims, one whose scope is a number, one whose scope is unknown and one
\* of another issuer.
ValidateTokens ==
    {signJwt(tokenClaims(Issuer, exp, scope), SigningKey) :
        exp \in 0..MaxTime, scope \in SeqToSet(SERVICE_SCOPES)}
    \cup {[segments |-> 2, key |-> SigningKey, payload |-> EmptyMap],
          signJwt(tokenClaims(Issuer, MaxTime, "reg"), "other-key"),
          signJwt([iss |-> str("test"), sub |-> str("x")], SigningKey),
          signJwt([tokenClaims(Issuer, MaxTime, "reg") EXCEPT !.service_scope = num(123)],
                  SigningKey),
          signJwt(tokenClaims(Issuer, MaxTime, "bogus"), SigningKey),
          signJwt(tokenClaims("test", MaxTime, "reg"), SigningKey)}

\* an expiry check that already rejects at the boundary
isExpiredAtBoundary(nowSeconds, exp) == nowSeconds >= exp + TokenClockSkew

\* nowSeconds > claims.exp + token_clock_skew_seconds
isExpired(nowSeconds, exp) == nowSeconds > exp + TokenClockSkew

validateResult(success, reasonCode, events) ==
    [success |-> success, reason_code |-> reasonCode, events |-> events]

validateDenied(reasonCode, instanceId) ==
    validateResult(FALSE, reasonCode,
                   <<AuditEvent("token_validate_denied", instanceId, <<reasonCode>>)>>)

\* validateToken up to its audit.record call: the result it will return and
\* the events it records on the way
validateDecision(request, nowSeconds) ==
    LET verified == verifyJwt(request.access_token, SigningKey)
    IN IF ~verified.valid
       THEN validateDenied(IF verified.reason = "malformed"
                           THEN "denied_token_malformed"
                           ELSE "denied_token_invalid_signature", "")
       ELSE LET payload == verified.payload
                strings == {parseStringClaim(payload, k) :
                              k \in {"iss", "sub", "aud", "jti", "service_scope",
                                     "tenant_id", "instance_id", "source"}}
                numbers == {parseNumericClaim(payload, k) : k \in {"iat", "exp"}}
            IN IF None \in strings \/ None \in numbers
               THEN validateResult(FALSE, "denied_token_malformed", <<>>)
               ELSE IF ~isServiceScope(payload.service_scope.s)
               THEN validateResult(FALSE, "denied_token_malformed", <<>>)
               ELSE IF payload.iss.s # Issuer
               THEN validateDenied("denied_token_malformed", payload.instance_id.s)
               ELSE IF isExpired(nowSeconds, payload.exp.n)
               THEN validateDenied("denied_token_expired", payload.instance_id.s)
               ELSE IF /\ IsSet(request.expected_service_scope)
                       /\ payload.service_scope.s # Val(request.expected_service_scope)
               THEN validateDenied("denied_token_wrong_service_scope",
                                   payload.instance_id.s)
               ELSE validateResult(TRUE, "none",
                        <<AuditEvent("token_validated", payload.instance_id.s,
                                     <<payload.service_scope.s>>)>>)

\* validateToken, the call: the checks, then audit.record where the path has
\* one; the result is held until the caller resumes
validateToken(p) ==
    \E token \in ValidateTokens, expected \in {None, Some("reg")} :
        LET request == [access_token |-> token, expected_service_scope |-> expected]
            result == validateDecision(request, clock)
            held == [op |-> "validateToken", input |-> request, after |-> "idle",
                     success |-> result.success, reason_code |-> result.reason_code]
        IN /\ canStart(p)
           /\ ops' = ops + 1
           /\ IF result.events # <<>>
              THEN mutateBegin(p, recordTx(state, result.events[1]),
                               "validate_return", held)
              ELSE /\ pc' = [pc EXCEPT ![p] = "validate_return"]
                   /\ loc' = [loc EXCEPT ![p] = held]
                   /\ UNCHANGED <<state, version, lock, work>>
           /\ UNCHANGED <<storeKind, clock, rng, hist>>

\* the caller of validateToken resumes with the result
validateReturn(p) ==
    /\ pc[p] = "validate_return"
    /\ pc' = [pc EXCEPT ![p] = "idle"]
    /\ loc' = [loc EXCEPT ![p] = Idle]
    /\ UNCHANGED <<storeKind, state, version, lock, clock, rng, work, ops, hist>>

OutageGraceWindow == 0

\* a grace check that ends the grace window one unit early
withinGraceExclusive(nowMs, expiryMs) == nowMs < expiryMs + OutageGraceWindow

\* nowMs <= expiryMs + graceMs
withinGrace(nowMs, expiryMs) == nowMs <= expiryMs + OutageGraceWindow

\* evaluateRefreshDuringOutage from the outage flag on
refreshDecision(outageActive, nowMs, expiryMs) ==
    IF ~outageActive THEN [action |-> "refresh_allowed", reason_code |-> "none"]
    ELSE IF withinGrace(nowMs, expiryMs)
    THEN [action |-> "retry_within_grace",
          reason_code |-> "blocked_auth_control_plane_outage"]
    ELSE [action |-> "pause_in_flight",
          reason_code |-> "paused_token_refresh_grace_exhausted"]

\* evaluateRefreshDuringOutage, the call: isOutageModeActive reads the store
evaluateRefreshDuringOutage(p) ==
    \E expiresAt \in 0..MaxTime :
        /\ canStart(p)
        /\ ops' = ops + 1
        /\ pc' = [pc EXCEPT ![p] = "refresh_outage"]
        /\ loc' = [loc EXCEPT ![p] =
                [op |-> "evaluateRefreshDuringOutage", input |-> expiresAt,
                 outage |-> read.outage_active]]
        /\ UNCHANGED <<storeKind, state, version, lock, clock, rng, work, hist>>

\* evaluateRefreshDuringOutage resumes with the flag: the clock is read and
\* the decision is taken
refreshDecide(p) ==
    /\ pc[p] = "refresh_outage"
    /\ pc' = [pc EXCEPT ![p] = "evaluated"]
    /\ loc' = [loc EXCEPT ![p] =
            [op |-> loc[p].op, input |-> loc[p].input, outage |-> loc[p].outage,
             now |-> clock,
             decision |-> refreshDecision(loc[p].outage, clock, loc[p].input)]]
    /\ UNCHANGED <<storeKind, state, version, lock, clock, rng, work, ops, hist>>

\* an evaluation that blames the instance before looking at the tenant
inFlightDecisionInstanceFirst(instance, tenant, atChunkBoundary) ==
    LET stop(reason) ==
            [action |-> IF atChunkBoundary THEN "pause"
                        ELSE "continue_until_chunk_boundary",
             reason_code |-> reason]
    IN IF ~IsSet(instance) THEN stop("paused_instance_disabled")
       ELSE IF Val(instance).state # "active" THEN stop("paused_instance_disabled")
       ELSE IF \/ ~IsSet(tenant)
               \/ Val(tenant).state # "active"
               \/ Val(tenant).entitlement_state # "active"
       THEN stop("paused_entitlement_disabled")
       ELSE [action |-> "continue", reason_code |-> "none"]

\* evaluateInFlightEntitlement from the instance and the tenant it read
\* (the tenant is not read when the instance is missing)
inFlightDecision(instance, tenant, atChunkBoundary) ==
    LET stop(reason) ==
            [action |-> IF atChunkBoundary THEN "pause"
                        ELSE "continue_until_chunk_boundary",
             reason_code |-> reason]
    IN IF ~IsSet(instance) THEN stop("paused_instance_disabled")
       ELSE IF \/ ~IsSet(tenant)
               \/ Val(tenant).state # "active"
               \/ Val(tenant).entitlement_state # "active"
       THEN stop("paused_entitlement_disabled")
       ELSE IF Val(instance).state # "active" THEN stop("paused_instance_disabled")
       ELSE [action |-> "continue", reason_code |-> "none"]

\* evaluateInFlightEntitlement, the call: registry.getInstance reads the store
evaluateInFlightEntitlement(p) ==
    \E iid \in InstanceIds, atChunkBoundary \in BOOLEAN :
        /\ canStart(p)
        /\ ops' = ops + 1
        /\ pc' = [pc EXCEPT ![p] = "inflight_instance"]
        /\ loc' = [loc EXCEPT ![p] =
                [op |-> "evaluateInFlightEntitlement",
                 input |-> <<iid, atChunkBoundary>>,
                 instance |-> maybeGet(read.instances, iid)]]
        /\ UNCHANGED <<storeKind, state, version, lock, clock, rng, work, hist>>

\* evaluateInFlightEntitlement resumes with the instance: registry.getTenant
\* reads the store, and the decision is taken
inFlightDecide(p) ==
    /\ pc[p] = "inflight_instance"
    /\ LET instance == loc[p].instance
           tenant == IF IsSet(instance)
                     THEN maybeGet(read.tenants, Val(instance).tenant_id) ELSE None
       IN loc' = [loc EXCEPT ![p] =
            [op |-> loc[p].op, input |-> loc[p].input, instance |-> instance,
             tenant |-> tenant,
             decision |-> inFlightDecision(instance, tenant, loc[p].input[2])]]
    /\ pc' = [pc EXCEPT ![p] = "evaluated"]
    /\ UNCHANGED <<storeKind, state, version, lock, clock, rng, work, ops, hist>>

\* the caller of an evaluation resumes with the decision
evaluationReturn(p) ==
    /\ pc[p] = "evaluated"
    /\ pc' = [pc EXCEPT ![p] = "idle"]
    /\ loc' = [loc EXCEPT ![p] = Idle]
    /\ UNCHANGED <<storeKind, state, version, lock, clock, rng, work, ops, hist>>

\* setOutageMode, the call: the flag is written in a transaction
setOutageMode(p) ==
    \E active \in BOOLEAN :
        /\ canStart(p)
        /\ ops' = ops + 1
        /\ mutateBegin(p, Return([state EXCEPT !.outage_active = active], active),
                       "outage_read",
                       [op |-> "setOutageMode", input |-> active, after |-> "idle"])
        /\ UNCHANGED <<storeKind, clock, rng, hist>>

\* setOutageMode resumes: isOutageModeActive() is read for the event metadata
setOutageModeRead(p) ==
    /\ pc[p] = "outage_read"
    /\ pc' = [pc EXCEPT ![p] = "audit"]
    /\ loc' = [loc EXCEPT ![p] =
            [op |-> "setOutageMode", input |-> loc[p].input, after |-> "idle",
             event |-> AuditEvent("control_plane_outage_mode_changed", "",
                                  <<read.outage_active>>)]]
    /\ UNCHANGED <<storeKind, state, version, lock, clock, rng, work, ops, hist>>

\* a caller of the store itself whose mutator changes its working copy and
\* then throws (in-memory-state-store.test.ts, "rolls back state")
mutateThrowing(p) ==
    /\ canStart(p)
    /\ ops' = ops + 1
    /\ mutateBegin(p, Throw([state EXCEPT !.outage_active = ~state.outage_active], "boom"),
                   "idle", [op |-> "mutateThrowing", input |-> state.outage_active])
    /\ UNCHANGED <<storeKind, clock, rng, hist>>

-----------------------------------------------------------------------------
(* Specification *)

\* One operation run to completion on its own: its transaction, then its
\* audit event in a second transaction.
ranAlone(snap, out, event, draws) ==
    [st |-> recordTx(out.st, event).st, rng |-> snap.rng + draws,
     version |-> snap.version + 2]

BootTenantInput == [tenant_id |-> "t1", state |-> "active", entitlement_state |-> "active"]
BootInstanceInput ==
    [instance_id |-> "i1", tenant_id |-> "t1", source |-> "src1", state |-> "active",
     allowed_services |-> <<"reg", "rrs">>]

\* The snapshots a control plane may be constructed over: the empty one of a
\* first bootstrap, and persisted ones left by an earlier run (createTenant;
\* createInstance; issueEnrollmentCode; exchangeEnrollmentCode;
\* startRotation; a mint with the next secret).
SnapEmpty == [st |-> createEmptyControlPlaneState, rng |-> 0, version |-> 0]

SnapTenant ==
    ranAlone(SnapEmpty, createTenantTx(SnapEmpty.st, BootTenantInput),
             AuditEvent("tenant_created", "", <<"t1", "active", "active">>), 0)

SnapInstance ==
    ranAlone(SnapTenant, createInstanceTx(SnapTenant.st, BootInstanceInput),
             AuditEvent("instance_created", "i1", <<"src1", <<"reg", "rrs">>, "active">>), 0)

SnapIssued ==
    ranAlone(SnapInstance,
             issueTx(SnapInstance.st, codeIdOf(0),
                     [code_hash |-> sha256Hex(enrollCodeOf(0)), tenant_id |-> "t1",
                      instance_id |-> "i1", issued_at |-> 0, expires_at |-> 0,
                      used_at |-> None]),
             AuditEvent("enrollment_code_issued", "i1", <<codeIdOf(0), 0>>), 1)

SnapEnrolled ==
    ranAlone(SnapIssued,
             exchangeTx(SnapIssued.st, sha256Hex(enrollCodeOf(0)), 0,
                        [i \in 1..MaxClientIdAttempts |-> "c1"], secretOf(1)),
             AuditEvent("enrollment_code_exchanged", "i1", <<Some(codeIdOf(0)), svId(1)>>),
             1)

SnapRotating ==
    ranAlone(SnapEnrolled,
             addNextSecretVersionTx(SnapEnrolled.st,
                    [instance_id |-> "i1", version_id |-> svId(2),
                     secret_hash |-> sha256Hex(secretOf(2)), valid_until |-> 0]),
             AuditEvent("secret_rotation_started", "i1", <<svId(2), 0>>), 1)

SnapAdopted ==
    LET adopted == ranAlone(SnapRotating,
                        markSecretAdoptedTx(SnapRotating.st, "i1", svId(2), 0),
                        AuditEvent("secret_rotation_adopted", "i1", <<svId(2)>>), 0)
    IN [st |-> recordTx(adopted.st, AuditEvent("token_minted", "i1", <<svId(2)>>)).st,
        rng |-> adopted.rng, version |-> adopted.version + 1]

\* a second instance whose enrollment code is still unused, next to an
\* enrolled first one
SnapSecondIssued ==
    LET second == ranAlone(SnapEnrolled,
                    createInstanceTx(SnapEnrolled.st,
                        [BootInstanceInput EXCEPT !.instance_id = "i2",
                                                  !.source = "src2"]),
                    AuditEvent("instance_created", "i2",
                               <<"src2", <<"reg", "rrs">>, "active">>), 0)
    IN ranAlone(second,
             issueTx(second.st, codeIdOf(2),
                     [code_hash |-> sha256Hex(enrollCodeOf(2)), tenant_id |-> "t1",
                      instance_id |-> "i2", issued_at |-> 0, expires_at |-> 0,
                      used_at |-> None]),
             AuditEvent("enrollment_code_issued", "i2", <<codeIdOf(2), 0>>), 1)

\* a second code issued for the enrolled instance i1
SnapReissued ==
    ranAlone(SnapEnrolled,
             issueTx(SnapEnrolled.st, codeIdOf(2),
                     [code_hash |-> sha256Hex(enrollCodeOf(2)), tenant_id |-> "t1",
                      instance_id |-> "i1", issued_at |-> 0, expires_at |-> 0,
                      used_at |-> None]),
             AuditEvent("enrollment_code_issued", "i1", <<codeIdOf(2), 0>>), 1)

\* the compromised-secret runbook, step by step: revoke of the current
\* secret; startRotation; a mint with the replacement secret
SnapRevoked ==
    ranAlone(SnapEnrolled,
             revokeSecretVersionTx(SnapEnrolled.st, "i1", svId(1), 0),
             AuditEvent("secret_revoked", "i1", <<svId(1)>>), 0)

SnapRevokedRotating ==
    ranAlone(SnapRevoked,
             addNextSecretVersionTx(SnapRevoked.st,
                    [instance_id |-> "i1", version_id |-> svId(2),
                     secret_hash |-> sha256Hex(secretOf(2)), valid_until |-> 0]),
             AuditEvent("secret_rotation_started", "i1", <<svId(2), 0>>), 1)

SnapRevokedAdopted ==
    LET adopted == ranAlone(SnapRevokedRotating,
                        markSecretAdoptedTx(SnapRevokedRotating.st, "i1", svId(2), 0),
                        AuditEvent("secret_rotation_adopted", "i1", <<svId(2)>>), 0)
    IN [st |-> recordTx(adopted.st, AuditEvent("token_minted", "i1", <<svId(2)>>)).st,
        rng |-> adopted.rng, version |-> adopted.version + 1]

\* an instance in rotation after setTenantState, setTenantEntitlement,
\* setInstanceState, setInstanceAllowedServices and setOutageMode
SnapDegraded(tenantState, entitlement, instanceState, services, outage) ==
    LET a == ranAlone(SnapRotating,
                setTenantStateTx(SnapRotating.st, "t1", tenantState),
                AuditEvent("tenant_state_changed", "", <<"t1", tenantState>>), 0)
        b == ranAlone(a, setTenantEntitlementTx(a.st, "t1", entitlement),
                AuditEvent("tenant_entitlement_changed", "", <<"t1", entitlement>>), 0)
        c == ranAlone(b, setInstanceStateTx(b.st, "i1", instanceState),
                AuditEvent("instance_state_changed", "i1", <<instanceState>>), 0)
        d == ranAlone(c, setInstanceAllowedServicesTx(c.st, "i1", services),
                AuditEvent("instance_services_updated", "i1",
                           <<normalizeServices(services)>>), 0)
    IN ranAlone(d, Return([d.st EXCEPT !.outage_active = outage], outage),
                AuditEvent("control_plane_outage_mode_changed", "", <<outage>>), 0)

DegradedSnapshots ==
    {SnapDegraded(ts, es, is, svc, outage) :
        ts \in {"active", "suspended"}, es \in {"active", "suspended"},
        is \in {"active", "suspended"}, svc \in {<<"reg", "rrs">>, <<"rrs">>},
        outage \in BOOLEAN}

InitOver(snapshots) ==
    /\ storeKind \in StoreKinds
    /\ \E snap \in snapshots :
        /\ state = snap.st
        /\ rng = snap.rng
        /\ version = snap.version
    /\ lock = NoProc
    /\ clock = 0
    /\ pc = [p \in Procs |-> "idle"]
    /\ loc = [p \in Procs |-> Idle]
    /\ work = [p \in Procs |-> NoWork]
    /\ ops = 0
    /\ hist = [exchanged |-> <<>>, started |-> <<>>]

storeSteps(p) == Commit(p) \/ Fail(p) \/ Audit(p)

registryOps(p) ==
    \/ createTenant(p)
    \/ setTenantState(p)
    \/ setTenantEntitlement(p)
    \/ createInstance(p)
    \/ setInstanceState(p)
    \/ setInstanceAllowedServices(p)

enrollmentOps(p) ==
    \/ setInitialCredentials(p)
    \/ issueEnrollmentCode(p)
    \/ issueReadInstance(p)
    \/ issueStore(p)
    \/ exchangeEnrollmentCode(p)

rotationOps(p) ==
    \/ startRotation(p)
    \/ startAddNext(p)
    \/ recordAdoption(p)
    \/ recordAdoptionMark(p)
    \/ completeRotation(p)
    \/ revokeSecret(p)

mintOps(p) ==
    \/ mintToken(p)
    \/ mintLookupInstance(p)
    \/ mintLookupTenant(p)
    \/ mintDecide(p)
    \/ mintRecordAdoption(p)
    \/ mintFinal(p)

outageOps(p) == setOutageMode(p) \/ setOutageModeRead(p)

validateOps(p) == validateToken(p) \/ validateReturn(p)

evaluationOps(p) ==
    \/ evaluateRefreshDuringOutage(p)
    \/ refreshDecide(p)
    \/ evaluateInFlightEntitlement(p)
    \/ inFlightDecide(p)
    \/ evaluationReturn(p)

\* The whole control plane
Init ==
    InitOver({SnapEmpty, SnapInstance, SnapIssued, SnapEnrolled, SnapRotating,
              SnapAdopted, SnapSecondIssued})

Next ==
    \/ Tick
    \/ \E p \in Procs :
        \/ storeSteps(p)
        \/ registryOps(p)
        \/ enrollmentOps(p)
        \/ rotationOps(p)
        \/ mintOps(p)
        \/ outageOps(p)
        \/ validateOps(p)
        \/ evaluationOps(p)
        \/ recordEvent(p)
        \/ mutateThrowing(p)

Spec == Init /\ [][Next]_vars

\* Callers of the store: outage switches and a throwing mutator
InitStore == InitOver({SnapEmpty, SnapInstance})
NextStore == \E p \in Procs : storeSteps(p) \/ outageOps(p) \/ mutateThrowing(p)
SpecStore == InitStore /\ [][NextStore]_vars

\* Enrollment traffic
InitEnroll == InitOver({SnapInstance, SnapIssued, SnapSecondIssued})
NextEnroll == Tick \/ \E p \in Procs : storeSteps(p) \/ enrollmentOps(p)
SpecEnroll == InitEnroll /\ [][NextEnroll]_vars

\* Rotation traffic on an enrolled instance
InitRotation == InitOver({SnapEnrolled, SnapRotating, SnapAdopted})
NextRotation == Tick \/ \E p \in Procs : storeSteps(p) \/ rotationOps(p)
SpecRotation == InitRotation /\ [][NextRotation]_vars

\* Mint traffic while secrets expire and are revoked
InitMint == InitOver({SnapRotating})
NextMint ==
    \/ Tick
    \/ \E p \in Procs :
        storeSteps(p) \/ mintOps(p) \/ revokeSecret(p)
SpecMint == InitMint /\ [][NextMint]_vars

\* Every operation that writes credentials or the client-id index
InitCredentials == InitOver({SnapIssued, SnapSecondIssued, SnapRotating, SnapAdopted})
NextCredentials == \E p \in Procs : storeSteps(p) \/ enrollmentOps(p) \/ rotationOps(p)
SpecCredentials == InitCredentials /\ [][NextCredentials]_vars

\* Mint traffic around the cutover of a rotation
InitOverlap == InitOver({SnapRotating, SnapAdopted})
NextOverlap ==
    Tick \/ \E p \in Procs : storeSteps(p) \/ mintOps(p) \/ completeRotation(p)
SpecOverlap == InitOverlap /\ [][NextOverlap]_vars

\* One operator working through the compromised-secret runbook, one call at
\* a time, after the revoke of the current secret
Operator == "p1"
InitRunbook == InitOver({SnapRevoked, SnapRevokedRotating, SnapRevokedAdopted})
NextRunbook ==
    \/ Tick
    \/ storeSteps(Operator)
    \/ startRotation(Operator)
    \/ startAddNext(Operator)
    \/ mintOps(Operator)
    \/ completeRotation(Operator)
SpecRunbook == InitRunbook /\ [][NextRunbook]_vars

\* Mints reading an instance while rotation operations are in flight
InitReads == InitOver({SnapEnrolled, SnapAdopted})
NextReads ==
    \E p \in Procs :
        \/ storeSteps(p)
        \/ mintOps(p)
        \/ startRotation(p)
        \/ startAddNext(p)
        \/ completeRotation(p)
        \/ revokeSecret(p)
SpecReads == InitReads /\ [][NextReads]_vars

\* Mint traffic against tenants, instances and a control plane in every
\* combination of states
InitDenials == InitOver(DegradedSnapshots)
NextDenials == \E p \in Procs : Commit(p) \/ Audit(p) \/ mintOps(p)
SpecDenials == InitDenials /\ [][NextDenials]_vars

\* Mint traffic while the outage switch is operated
InitOutage == InitOver({SnapRotating})
NextOutage ==
    \E p \in Procs : Commit(p) \/ Audit(p) \/ mintOps(p) \/ outageOps(p)
SpecOutage == InitOutage /\ [][NextOutage]_vars

\* Callers of the registry
InitRegistry == InitOver({SnapEmpty, SnapInstance})
NextRegistry ==
    \E p \in Procs :
        \/ storeSteps(p)
        \/ registryOps(p)
        \/ setInitialCredentials(p)
SpecRegistry == InitRegistry /\ [][NextRegistry]_vars

-----------------------------------------------------------------------------
(* Properties *)

IsPrefix(a, b) == Len(a) <= Len(b) /\ SubSeq(b, 1, Len(a)) = a

NoDuplicates(s) == \A i, j \in 1..Len(s) : s[i] = s[j] => i = j

enrolledInstances(st) ==
    {i \in DOMAIN st.instances : IsSet(st.instances[i].client_credentials)}

\* C1: concurrent mutate calls behave as if run one after the other and no
\* committed write is lost.  No mutator of the program removes an audit
\* event, so in any such order every committed snapshot's audit log extends
\* the audit log of the snapshot it replaces.
C1_NoCommittedWriteLost ==
    [][IsPrefix(state.audit_events, state'.audit_events)]_vars

\* C2: of the exchange calls for one enrollment code, concurrent or not,
\* exactly one succeeds: no code is in the history of successful exchanges
\* twice.
C2_OneExchangePerCode == NoDuplicates(hist.exchanged)

\* C3: of two start-rotation calls on an instance in STABLE exactly one
\* succeeds: no two successful starts of an instance introduce the same next
\* secret version.
C3_OneStartPerVersion == NoDuplicates(hist.started)

\* C4: when the function passed to mutate throws, the stored snapshot is the
\* one from before the call, whatever the function did to its working copy,
\* and the caller holds the error.
C4_ThrowRollsBack ==
    [][\A p \in Procs :
        /\ (pc[p] # "failed" /\ pc'[p] = "failed") => state' = state
        /\ (pc[p] = "idle" /\ loc'[p].op = "mutateThrowing")
                => (pc'[p] = "failed" /\ loc'[p].err = "boom")]_vars

\* C4 happens: a caller holds the error of a mutator that flipped the outage
\* flag in its working copy, and the stored flag is the one from before
C4_Witness ==
    \E p \in Procs :
        /\ pc[p] = "failed"
        /\ loc[p].op = "mutateThrowing"
        /\ loc[p].err = "boom"
        /\ state.outage_active = loc[p].input

\* C5: every successful mint matched a secret version that, on the instance
\* record the mint decided on, has no revoked_at and has no valid_until or a
\* valid_until not earlier than the time of the match.
C5_MintMatchedActiveSecret ==
    \A p \in Procs :
        (/\ loc[p].op = "mintToken"
         /\ "matched" \in DOMAIN loc[p]
         /\ loc[p].success)
        => LET versions == getCreds(loc[p].instance).secret_versions
               k == findVersionIndex(versions, loc[p].matched.version_id)
           IN /\ k # 0
              /\ ~IsSet(versions[k].revoked_at)
              /\ \/ ~IsSet(versions[k].valid_until)
                 \/ Val(versions[k].valid_until) >= loc[p].now

\* C5 happens: a mint succeeded on a secret whose valid_until is set, while
\* another version of the instance is revoked
C5_Witness ==
    \E p \in Procs :
        /\ loc[p].op = "mintToken"
        /\ "matched" \in DOMAIN loc[p]
        /\ loc[p].success
        /\ LET versions == getCreds(loc[p].instance).secret_versions
               k == findVersionIndex(versions, loc[p].matched.version_id)
           IN /\ IsSet(versions[k].valid_until)
              /\ \E j \in 1..Len(versions) : IsSet(versions[j].revoked_at)

\* C6: in every reachable state, for every instance with credentials,
\* current_secret_version_id is the version_id of an entry of its
\* secret_versions.
C6_CurrentVersionResolves ==
    \A i \in enrolledInstances(state) :
        LET credentials == getCreds(state.instances[i])
        IN findVersionIndex(credentials.secret_versions,
                            credentials.current_secret_version_id) # 0

\* C6 happens: a promotion moved the current pointer off the initial version
C6_Witness ==
    \E i \in enrolledInstances(state) :
        LET credentials == getCreds(state.instances[i])
        IN /\ credentials.current_secret_version_id = svId(2)
           /\ Len(credentials.secret_versions) >= 2

\* C7: in every reachable state, for every instance whose
\* next_secret_version_id is set, that id differs from
\* current_secret_version_id and is the version_id of an entry of the
\* instance's secret_versions.
C7_NextVersionDistinctAndResolves ==
    \A i \in enrolledInstances(state) :
        LET credentials == getCreds(state.instances[i])
        IN IsSet(credentials.next_secret_version_id)
            => /\ Val(credentials.next_secret_version_id)
                    # credentials.current_secret_version_id
               /\ findVersionIndex(credentials.secret_versions,
                                   Val(credentials.next_secret_version_id)) # 0

\* C7 happens: a rotation was started after an earlier one was promoted
C7_Witness ==
    \E i \in enrolledInstances(state) :
        LET credentials == getCreds(state.instances[i])
        IN /\ credentials.current_secret_version_id = svId(2)
           /\ credentials.next_secret_version_id = Some(svId(3))

\* C8: in every reachable state the client-id index is a bijection over the
\* enrolled instances: every client id of the index maps to an instance
\* whose credentials carry that client id, and every instance with
\* credentials is the target of its own client id (and so of no other).
C8_ClientIdIndexBijection ==
    /\ \A cid \in DOMAIN state.client_id_to_instance :
        LET i == state.client_id_to_instance[cid]
        IN /\ i \in enrolledInstances(state)
           /\ getCreds(state.instances[i]).client_id = cid
    /\ \A i \in enrolledInstances(state) :
        LET cid == getCreds(state.instances[i]).client_id
        IN /\ Has(state.client_id_to_instance, cid)
           /\ state.client_id_to_instance[cid] = i

\* C8 happens: two instances are enrolled, each under its own client id
C8_Witness ==
    /\ enrolledInstances(state) = {"i1", "i2"}
    /\ getCreds(state.instances["i1"]).client_id
            # getCreds(state.instances["i2"]).client_id

\* C9: an enrollment code's used_at is set at most once: once set it keeps
\* its value in every later snapshot (and so no later exchange finds the
\* code unused).
C9_UsedAtSetOnce ==
    [][\A c \in DOMAIN state.enrollment_records :
        IsSet(state.enrollment_records[c].used_at)
            => /\ c \in DOMAIN state'.enrollment_records
               /\ state'.enrollment_records[c].used_at
                    = state.enrollment_records[c].used_at]_vars

C11_CompleteRevokesOldClearsNew ==
    [][\A p \in Procs :
        (/\ pc[p] = "commit"
         /\ pc'[p] = "audit"
         /\ loc[p].op = "completeRotation")
        => LET i == loc[p].input.instance_id
               old == loc[p].event.detail[1]
               new == loc[p].event.detail[2]
               before == getCreds(state.instances[i])
               after == getCreds(state'.instances[i]).secret_versions
               o == findVersionIndex(after, old)
               n == findVersionIndex(after, new)
           IN /\ work[p].base = version
                    => /\ before.current_secret_version_id = old
                       /\ before.next_secret_version_id = Some(new)
              /\ o # 0 /\ IsSet(after[o].revoked_at)
              /\ n # 0 /\ ~IsSet(after[n].valid_until)]_vars

\* C11 happens: a caller has committed a promotion, and the snapshot shows
\* the old version revoked and the promoted one without its overlap deadline
C11_Witness ==
    \E p \in Procs :
        /\ pc[p] = "audit"
        /\ loc[p].op = "completeRotation"
        /\ LET versions == getCreds(state.instances[loc[p].input.instance_id]).secret_versions
               o == findVersionIndex(versions, loc[p].event.detail[1])
               n == findVersionIndex(versions, loc[p].event.detail[2])
           IN /\ IsSet(versions[o].revoked_at)
              /\ ~IsSet(versions[n].valid_until)
              /\ o # n

\* a mint at its decision with every rule before the secret check passed
mintReachesSecretCheck(l) ==
    /\ IsSet(l.tenant)
    /\ evaluateTenantEligibility(Val(l.tenant)) = "none"
    /\ evaluateInstanceEligibility(l.instance) = "none"
    /\ l.input.service_scope \in SeqToSet(l.instance.allowed_services)

\* the secret version whose secret a request presents (0: none)
presentedIndex(credentials, suppliedSecret) ==
    IF \E k \in 1..Len(credentials.secret_versions) :
            credentials.secret_versions[k].secret_hash = sha256Hex(suppliedSecret)
    THEN CHOOSE k \in 1..Len(credentials.secret_versions) :
            credentials.secret_versions[k].secret_hash = sha256Hex(suppliedSecret)
    ELSE 0

\* C12: in the overlap window after start (a next version is set, its
\* valid_until has not passed, neither version is revoked) a mint with the
\* current secret and a mint with the next secret both succeed; once the
\* rotation is over (no next version, an older version exists) a mint with a
\* superseded secret is denied with denied_invalid_secret and a mint with the
\* unrevoked current secret succeeds.
C12_OverlapThenCutover ==
    [][\A p \in Procs :
        (/\ pc[p] = "mint_tenant"
         /\ pc'[p] # "mint_tenant"
         /\ mintReachesSecretCheck(loc[p]))
        => LET credentials == getCreds(loc[p].instance)
               versions == credentials.secret_versions
               k == presentedIndex(credentials, loc[p].input.client_secret)
               c == findVersionIndex(versions, credentials.current_secret_version_id)
               n == IF IsSet(credentials.next_secret_version_id)
                    THEN findVersionIndex(versions,
                                          Val(credentials.next_secret_version_id))
                    ELSE 0
           IN k # 0 =>
              /\ (/\ n # 0
                  /\ ~IsSet(versions[c].revoked_at)
                  /\ ~IsSet(versions[n].revoked_at)
                  /\ clock <= Val(versions[n].valid_until)
                  /\ k \in {c, n})
                 => loc'[p].success
              /\ (n = 0 /\ Len(versions) >= 2 /\ k # c)
                 => (~loc'[p].success /\ loc'[p].reason_code = "denied_invalid_secret")
              /\ (n = 0 /\ Len(versions) >= 2 /\ k = c /\ ~IsSet(versions[c].revoked_at))
                 => loc'[p].success]_vars

\* C12 happens: after a promotion, a mint with the promoted secret is
\* succeeding at a time past the overlap deadline the version once had
C12_Witness ==
    \E p \in Procs :
        /\ loc[p].op = "mintToken"
        /\ "matched" \in DOMAIN loc[p]
        /\ loc[p].success
        /\ loc[p].matched.version_id = svId(2)
        /\ getCreds(loc[p].instance).current_secret_version_id = svId(2)
        /\ loc[p].now > 0

\* the versions of instance i that carry revoked_at in snapshot st
revokedVersions(st, i) ==
    IF i \in enrolledInstances(st)
    THEN {v.version_id : v \in {w \in SeqToSet(getCreds(st.instances[i]).secret_versions) :
                                    IsSet(w.revoked_at)}}
    ELSE {}

\* C13: once a revoke of a secret version has been committed, every later
\* mint presenting that secret that passes the earlier rules is denied with
\* denied_invalid_secret: a revoked version is revoked in every later
\* snapshot, and a mint deciding on a record whose presented version is
\* revoked is denied with denied_invalid_secret.
C13_RevokedSecretStaysDenied ==
    [][/\ \A i \in DOMAIN state.instances :
            revokedVersions(state, i) \subseteq revokedVersions(state', i)
       /\ \A p \in Procs :
            (/\ pc[p] = "mint_tenant"
             /\ pc'[p] # "mint_tenant"
             /\ mintReachesSecretCheck(loc[p]))
            => LET credentials == getCreds(loc[p].instance)
                   k == presentedIndex(credentials, loc[p].input.client_secret)
               IN (k # 0 /\ IsSet(credentials.secret_versions[k].revoked_at))
                    => /\ ~loc'[p].success
                       /\ loc'[p].reason_code = "denied_invalid_secret"]_vars

\* the current version of the credentials is revoked
currentRevoked(credentials) ==
    LET c == findVersionIndex(credentials.secret_versions,
                              credentials.current_secret_version_id)
    IN c # 0 /\ IsSet(credentials.secret_versions[c].revoked_at)

\* C14: after the current secret has been revoked, the compromised-secret
\* runbook works step by step for an operator making one call at a time:
\* startRotation is accepted and sets a next version; a mint that presents
\* the replacement secret before its overlap deadline (tenant and instance
\* eligible, scope allowed) succeeds and, when it returns, the version
\* carries adopted_at; completeRotation is then accepted and leaves the
\* replacement as the unrevoked current version without a deadline and no
\* next version; and a mint with that current secret succeeds.
C14_CompromisedSecretRunbook ==
    [][\A p \in Procs :
        /\ (/\ pc[p] = "start_mutate"
            /\ pc'[p] # "start_mutate"
            /\ IsSet(loc[p].instance)
            /\ IsSet(Val(loc[p].instance).client_credentials)
            /\ currentRevoked(getCreds(Val(loc[p].instance)))
            /\ ~IsSet(getCreds(Val(loc[p].instance)).next_secret_version_id))
           => /\ pc'[p] = "commit"
              /\ getCreds(work'[p].st.instances[loc[p].input.instance_id])
                    .next_secret_version_id = Some(loc'[p].version_id)
        /\ (/\ pc[p] = "mint_tenant"
            /\ pc'[p] # "mint_tenant"
            /\ mintReachesSecretCheck(loc[p]))
           => LET credentials == getCreds(loc[p].instance)
                  versions == credentials.secret_versions
                  k == presentedIndex(credentials, loc[p].input.client_secret)
                  c == findVersionIndex(versions, credentials.current_secret_version_id)
                  n == IF IsSet(credentials.next_secret_version_id)
                       THEN findVersionIndex(versions,
                                             Val(credentials.next_secret_version_id))
                       ELSE 0
              IN /\ (/\ currentRevoked(credentials)
                     /\ n # 0
                     /\ k = n
                     /\ clock <= Val(versions[n].valid_until))
                    => (loc'[p].success /\ loc'[p].matched.is_next_version)
                 /\ (/\ n = 0
                     /\ k = c
                     /\ k # 0
                     /\ ~IsSet(versions[c].revoked_at)
                     /\ \E o \in 1..Len(versions) : IsSet(versions[o].revoked_at))
                    => loc'[p].success
        /\ (/\ pc[p] = "mint_final"
            /\ pc'[p] # "mint_final"
            /\ currentRevoked(getCreds(loc[p].instance)))
           => LET versions == getCreds(state.instances[loc[p].instance_id]).secret_versions
                  k == findVersionIndex(versions, loc[p].matched.version_id)
              IN k # 0 /\ IsSet(versions[k].adopted_at)
        /\ (/\ pc[p] = "idle"
            /\ loc'[p].op = "completeRotation"
            /\ loc'[p].input.instance_id \in enrolledInstances(state))
           => LET credentials == getCreds(state.instances[loc'[p].input.instance_id])
                  versions == credentials.secret_versions
                  n == IF IsSet(credentials.next_secret_version_id)
                       THEN findVersionIndex(versions,
                                             Val(credentials.next_secret_version_id))
                       ELSE 0
              IN (/\ currentRevoked(credentials)
                  /\ n # 0
                  /\ IsSet(versions[n].adopted_at))
                 => /\ pc'[p] = "commit"
                    /\ LET after == getCreds(work'[p].st.instances[
                                                loc'[p].input.instance_id])
                       IN /\ after.current_secret_version_id = versions[n].version_id
                          /\ ~IsSet(after.next_secret_version_id)
                          /\ ~IsSet(after.secret_versions[n].revoked_at)
                          /\ ~IsSet(after.secret_versions[n].valid_until)]_vars

\* C14 happens: after the revoke of sv_1 and the completed rotation to sv_2,
\* a mint with the secret of sv_2, now the current version, is succeeding
C14_Witness ==
    \E p \in Procs :
        /\ pc[p] = "commit"
        /\ loc[p].op = "mintToken"
        /\ loc[p].success
        /\ loc[p].matched.version_id = svId(2)
        /\ ~loc[p].matched.is_next_version
        /\ getCreds(loc[p].instance).current_secret_version_id = svId(2)
        /\ IsSet(getCreds(loc[p].instance).secret_versions[1].revoked_at)

RotationOperations == {"startRotation", "completeRotation", "revokeSecret"}

\* caller q has run the registry transaction of a rotation operation and
\* has not committed it yet
rotationInFlight(q) ==
    /\ pc[q] = "commit"
    /\ loc[q].op \in RotationOperations
    /\ work[q].next = "audit"

\* record m has every field from pre or from post and is neither of them
isMixture(m, pre, post) ==
    /\ m \notin {pre, post}
    /\ m.client_id \in {pre.client_id, post.client_id}
    /\ m.current_secret_version_id \in
            {pre.current_secret_version_id, post.current_secret_version_id}
    /\ m.next_secret_version_id \in
            {pre.next_secret_version_id, post.next_secret_version_id}
    /\ m.secret_versions \in {pre.secret_versions, post.secret_versions}

\* C15: a mint that reads an instance while a rotation operation (start,
\* complete or revoke) runs concurrently gets the record of the committed
\* snapshot, which is no mixture of the credentials before and after any
\* rotation transaction in flight; and the commit of a rotation transaction
\* installs the credentials of its working copy in one step and leaves the
\* record a mint already holds as it is.  So a mint sees the credentials
\* entirely as they were before the operation or entirely as they are
\* after it.
C15_MintReadsWholeCredentials ==
    [][/\ \A p \in Procs :
            (pc[p] = "mint_outage" /\ pc'[p] = "mint_instance")
            => LET cid == loc[p].input.client_id
               IN IF /\ Has(state.client_id_to_instance, cid)
                     /\ Has(state.instances, state.client_id_to_instance[cid])
                  THEN LET i == state.client_id_to_instance[cid]
                       IN /\ loc'[p].instance = Some(state.instances[i])
                          /\ state' = state
                          /\ \A q \in Procs \ {p} :
                                (/\ rotationInFlight(q)
                                 /\ loc[q].input.instance_id = i
                                 /\ IsSet(Val(loc'[p].instance).client_credentials))
                                => ~isMixture(getCreds(Val(loc'[p].instance)),
                                              getCreds(state.instances[i]),
                                              getCreds(work[q].st.instances[i]))
                  ELSE loc'[p].instance = None
       /\ \A q \in Procs :
            (rotationInFlight(q) /\ pc'[q] # "commit")
            => /\ state'.instances[loc[q].input.instance_id] =
                        work[q].st.instances[loc[q].input.instance_id]
               /\ \A p \in Procs \ {q} :
                    pc[p] \in {"mint_instance", "mint_tenant"}
                    => loc'[p].instance = loc[p].instance]_vars

\* C15 happens: a mint holds the record it read while the transaction of a
\* completeRotation on the same instance is not committed yet, and the
\* record is the one from before the promotion
C15_Witness ==
    \E p, q \in Procs :
        /\ pc[p] = "mint_instance"
        /\ IsSet(loc[p].instance)
        /\ rotationInFlight(q)
        /\ loc[q].op = "completeRotation"
        /\ loc[q].input.instance_id = loc[p].instance_id
        /\ Val(loc[p].instance) = state.instances[loc[p].instance_id]
        /\ Val(loc[p].instance) # work[q].st.instances[loc[p].instance_id]

\* The denial rules in the order the contract lists them, each with the
\* reason it gives and whether it fails for the request on snapshot st
denialRules(request, st, nowIso) ==
    LET cid == request.client_id
        known == /\ Has(st.client_id_to_instance, cid)
                 /\ Has(st.instances, st.client_id_to_instance[cid])
                 /\ IsSet(st.instances[st.client_id_to_instance[cid]].client_credentials)
                 /\ Has(st.tenants, st.instances[st.client_id_to_instance[cid]].tenant_id)
        instance == st.instances[st.client_id_to_instance[cid]]
        tenant == st.tenants[instance.tenant_id]
    IN << [reason |-> "denied_invalid_grant",
           fails |-> request.grant_type \notin {None, Some("client_credentials")}],
          [reason |-> "denied_service_not_allowed",
           fails |-> request.service_scope \notin SeqToSet(SERVICE_SCOPES)],
          [reason |-> "denied_auth_control_plane_outage",
           fails |-> st.outage_active],
          [reason |-> "denied_invalid_client",
           fails |-> ~known],
          [reason |-> IF known THEN evaluateTenantEligibility(tenant) ELSE "none",
           fails |-> known /\ (tenant.state # "active"
                               \/ tenant.entitlement_state # "active")],
          [reason |-> IF known THEN evaluateInstanceEligibility(instance) ELSE "none",
           fails |-> known /\ instance.state # "active"],
          [reason |-> "denied_service_not_allowed",
           fails |-> known /\ request.service_scope
                                \notin SeqToSet(instance.allowed_services)],
          [reason |-> "denied_invalid_secret",
           fails |-> known /\ \A k \in 1..Len(getCreds(instance).secret_versions) :
                        LET v == getCreds(instance).secret_versions[k]
                        IN \/ v.secret_hash # sha256Hex(request.client_secret)
                           \/ IsSet(v.revoked_at)
                           \/ (IsSet(v.valid_until) /\ nowIso > Val(v.valid_until))] >>

failingRules(request, st, nowIso) ==
    {k \in 1..Len(denialRules(request, st, nowIso)) :
        denialRules(request, st, nowIso)[k].fails}

\* the reason of the first failing rule ("none": every rule passes)
firstFailingReason(request, st, nowIso) ==
    LET failing == failingRules(request, st, nowIso)
    IN IF failing = {} THEN "none"
       ELSE denialRules(request, st, nowIso)[
                CHOOSE k \in failing : \A j \in failing : k <= j].reason

\* C16: the denial rules are evaluated in the order invalid grant, unknown
\* scope, outage, invalid client, tenant eligibility, instance eligibility,
\* service not allowed on the instance, invalid secret: the step on which a
\* mint is decided denies exactly when some rule fails, the reason_code it
\* returns is that of the first failing rule in this order, and the
\* token_mint_denied event it records carries the same reason.
C16_FirstFailingRuleWins ==
    [][\A p \in Procs :
        (/\ loc'[p].op = "mintToken"
         /\ "success" \in DOMAIN loc'[p]
         /\ "success" \notin DOMAIN loc[p])
        => LET expected == firstFailingReason(loc'[p].input, state, clock)
               events == work'[p].st.audit_events
           IN /\ loc'[p].success <=> expected = "none"
              /\ loc'[p].reason_code = expected
              /\ ~loc'[p].success
                 => /\ pc'[p] = "commit"
                    /\ events[Len(events)].event_type = "token_mint_denied"
                    /\ events[Len(events)].detail = <<expected>>]_vars

\* C16 happens: a mint that fails several rules at once (the tenant is
\* suspended, the scope is not allowed on the instance and the secret is
\* wrong) is being denied for the first of them
C16_Witness ==
    \E p \in Procs :
        /\ pc[p] = "commit"
        /\ loc[p].op = "mintToken"
        /\ ~loc[p].success
        /\ Cardinality(failingRules(loc[p].input, state, clock)) >= 3
        /\ loc[p].reason_code = "denied_tenant_suspended"

\* C17: from the commit of setOutageMode(true) until outage mode is turned
\* off the mint path fails closed: the flag stays set until the transaction
\* of a setOutageMode(false) commits, a mint that starts while the flag is
\* set does not succeed, and with a valid grant type and a known scope it
\* is denied with denied_auth_control_plane_outage.
C17_OutageFailsClosed ==
    [][/\ (state.outage_active /\ ~state'.outage_active)
          => \E q \in Procs :
                /\ pc[q] = "commit"
                /\ pc'[q] = "outage_read"
                /\ loc[q].op = "setOutageMode"
                /\ loc[q].input = FALSE
       /\ \A p \in Procs :
            /\ (/\ pc[p] = "idle"
                /\ loc'[p].op = "mintToken"
                /\ state.outage_active)
               => IF pc'[p] = "mint_outage"
                  THEN loc'[p].outage
                  ELSE ~loc'[p].success
            /\ (/\ pc[p] = "mint_outage"
                /\ pc'[p] # "mint_outage"
                /\ loc[p].outage)
               => /\ ~loc'[p].success
                  /\ loc'[p].reason_code = "denied_auth_control_plane_outage"]_vars

\* C18: when a mint that matched the instance's next secret version returns
\* its success, recordAdoption has run: in the snapshot the caller finds on
\* return that version carries adopted_at.
C18_AdoptedWhenMintReturns ==
    [][\A p \in Procs :
        (/\ pc[p] = "commit"
         /\ pc'[p] = "idle"
         /\ loc[p].op = "mintToken"
         /\ loc[p].success
         /\ loc[p].matched.is_next_version)
        => LET versions == getCreds(state'.instances[loc[p].instance_id]).secret_versions
               k == findVersionIndex(versions, loc[p].matched.version_id)
           IN k # 0 /\ IsSet(versions[k].adopted_at)]_vars

\* the versions of instance i that carry adopted_at in snapshot st
adoptedVersions(st, i) ==
    IF i \in enrolledInstances(st)
    THEN {v.version_id : v \in {w \in SeqToSet(getCreds(st.instances[i]).secret_versions) :
                                    IsSet(w.adopted_at)}}
    ELSE {}

\* C19: adopted_at is only ever set on the next version: a version that
\* carries adopted_at after a step and did not carry it before is the next
\* version of its instance in the snapshot the step replaces.
C19_AdoptedOnlyOnNextVersion ==
    [][\A i \in DOMAIN state'.instances :
        \A v \in adoptedVersions(state', i) \ adoptedVersions(state, i) :
            /\ i \in enrolledInstances(state)
            /\ getCreds(state.instances[i]).next_secret_version_id = Some(v)]_vars

\* adopted_at of version v of instance i in snapshot st (None: not set, or
\* no such version)
adoptedAt(st, i, v) ==
    IF i \in enrolledInstances(st)
       /\ findVersionIndex(getCreds(st.instances[i]).secret_versions, v) # 0
    THEN getCreds(st.instances[i]).secret_versions[
            findVersionIndex(getCreds(st.instances[i]).secret_versions, v)].adopted_at
    ELSE None

\* C20: recordAdoption is idempotent: when it runs for a version whose
\* adopted_at is set, called directly or from a mint, it leaves adopted_at
\* as it is: it returns without a registry write when the record it read
\* shows adopted_at, and markSecretAdopted keeps the adopted_at it finds.
C20_RecordAdoptionIdempotent ==
    [][\A p \in Procs :
        (/\ pc[p] \in {"adoption_mark", "adopt_read"}
         /\ pc'[p] # pc[p])
        => LET i == IF pc[p] = "adopt_read" THEN loc[p].instance_id
                    ELSE loc[p].input.instance_id
               v == IF pc[p] = "adopt_read" THEN loc[p].matched.version_id
                    ELSE loc[p].input.secret_version_id
               readAdopted ==
                    /\ IsSet(loc[p].before)
                    /\ IsSet(Val(loc[p].before).client_credentials)
                    /\ IsSet(adoptedAt([instances |-> (i :> Val(loc[p].before))], i, v))
           IN /\ IsSet(adoptedAt(state, i, v))
                 => /\ adoptedAt(state', i, v) = adoptedAt(state, i, v)
                    /\ pc'[p] = "commit"
                       => adoptedAt(work'[p].st, i, v) = adoptedAt(state, i, v)
              /\ readAdopted
                 => /\ state' = state
                    /\ pc'[p] = "commit"
                       => work'[p].st.instances = state.instances]_vars

\* C20 happens: markSecretAdopted has run for a version that another
\* caller had adopted at an earlier time, and its working copy carries the
\* earlier adopted_at
C20_Witness ==
    \E p \in Procs :
        /\ pc[p] = "commit"
        /\ loc[p].op = "recordAdoption"
        /\ work[p].base = version
        /\ IsSet(adoptedAt(state, loc[p].input.instance_id,
                           loc[p].input.secret_version_id))
        /\ Val(adoptedAt(state, loc[p].input.instance_id,
                         loc[p].input.secret_version_id)) < clock
        /\ adoptedAt(work[p].st, loc[p].input.instance_id,
                     loc[p].input.secret_version_id)
                = adoptedAt(state, loc[p].input.instance_id,
                            loc[p].input.secret_version_id)

\* C21: once a secret version's revoked_at is set, no later operation clears
\* it: a version that carries revoked_at in a snapshot carries it in the
\* snapshot after every step.
C21_RevokedAtNeverCleared ==
    [][\A i \in DOMAIN state.instances :
        \A v \in revokedVersions(state, i) :
            /\ i \in DOMAIN state'.instances
            /\ v \in revokedVersions(state', i)]_vars

\* the rotation state of instance i in snapshot st
rotationState(st, i) ==
    IF i \notin enrolledInstances(st) THEN "NO_CREDENTIALS"
    ELSE IF ~IsSet(getCreds(st.instances[i]).next_secret_version_id) THEN "STABLE"
    ELSE IF IsSet(adoptedAt(st, i, Val(getCreds(st.instances[i]).next_secret_version_id)))
    THEN "ADOPTED_PENDING_PROMOTION"
    ELSE "ROTATING"

\* C22: the rotation state of an instance follows STABLE -> ROTATING ->
\* ADOPTED_PENDING_PROMOTION -> STABLE: the commit of startRotation's
\* transaction moves the instance from STABLE to ROTATING, that of
\* recordAdoption's (called directly or from a mint) from ROTATING to
\* ADOPTED_PENDING_PROMOTION or leaves the state as it is, that of
\* completeRotation's from ADOPTED_PENDING_PROMOTION to STABLE, and no other
\* commit of these operations changes the rotation state of any instance.
C22_RotationStateMachine ==
    [][\A p \in Procs :
        (/\ pc[p] = "commit"
         /\ pc'[p] # "commit"
         /\ loc[p].op \in {"startRotation", "recordAdoption", "completeRotation",
                           "mintToken"})
        => LET registryCommit ==
                    /\ work[p].next = "audit"
                    /\ loc[p].event.event_type \in
                            {"secret_rotation_started", "secret_rotation_adopted",
                             "secret_rotation_completed"}
               target == IF loc[p].op = "mintToken" THEN loc[p].instance_id
                         ELSE loc[p].input.instance_id
               before(i) == rotationState(state, i)
               after(i) == rotationState(state', i)
           IN /\ \A i \in DOMAIN state.instances :
                    (~registryCommit \/ i # target) => after(i) = before(i)
              /\ registryCommit
                 => CASE loc[p].event.event_type = "secret_rotation_started"
                            -> before(target) = "STABLE" /\ after(target) = "ROTATING"
                      [] loc[p].event.event_type = "secret_rotation_adopted"
                            -> \/ /\ before(target) = "ROTATING"
                                  /\ after(target) = "ADOPTED_PENDING_PROMOTION"
                               \/ after(target) = before(target)
                      [] loc[p].event.event_type = "secret_rotation_completed"
                            -> /\ before(target) = "ADOPTED_PENDING_PROMOTION"
                               /\ after(target) = "STABLE"]_vars

TenantAndInstanceMutations ==
    {"createTenant", "setTenantState", "setTenantEntitlement", "createInstance",
     "setInstanceState", "setInstanceAllowedServices"}

\* caller p, running one of the operations `mutations`, appends exactly one
\* audit event on this step or none: its transaction pushes no event and
\* hands over to one audit.record, and that audit.record pushes the
\* operation's event and nothing else and ends the operation
appendsOneEvent(p, mutations) ==
    /\ (pc[p] = "idle" /\ pc'[p] = "commit" /\ loc'[p].op \in mutations)
       => /\ work'[p].st.audit_events = state.audit_events
          /\ work'[p].next = "audit"
          /\ loc'[p].after = "idle"
    /\ (pc[p] = "audit" /\ pc'[p] # "audit" /\ loc[p].op \in mutations)
       => /\ pc'[p] = "commit"
          /\ work'[p].st = [state EXCEPT
                                !.audit_events = Append(state.audit_events, loc[p].event)]
          /\ work'[p].next = "idle"

\* C23 as amended: every successful tenant or instance mutation of the
\* registry appends exactly one audit event; the registry's credential
\* mutations append none themselves: setInitialCredentials called on the
\* registry ends with its transaction.
C23_TenantInstanceMutationsAudited ==
    [][\A p \in Procs :
        /\ appendsOneEvent(p, TenantAndInstanceMutations)
        /\ (pc[p] = "idle" /\ pc'[p] = "commit" /\ loc'[p].op = "setInitialCredentials")
           => /\ work'[p].st.audit_events = state.audit_events
              /\ work'[p].next = "idle"]_vars

\* C23 happens: setInstanceState has committed its change and its one
\* event is in the working copy of its audit.record
C23_Witness ==
    \E p \in Procs :
        /\ pc[p] = "commit"
        /\ loc[p].op = "setInstanceState"
        /\ work[p].next = "idle"
        /\ work[p].base = version
        /\ work[p].st.audit_events = Append(state.audit_events, loc[p].event)
        /\ state.instances[loc[p].input[1]].state = loc[p].input[2]

\* C23 as stated: every successful registry mutation, credential operations
\* included, appends exactly one audit event.
C23_EveryRegistryMutationAudited ==
    [][\A p \in Procs :
        appendsOneEvent(p, TenantAndInstanceMutations \cup {"setInitialCredentials"})]_vars

\* some caller is still inside operation op with the given input
inFlight(op, input) ==
    \E p \in Procs : pc[p] # "idle" /\ loc[p].op = op /\ loc[p].input = input

\* the log of snapshot st holds an event of the type for the instance with
\* the detail
logged(st, type, instanceId, detail) ==
    \E k \in 1..Len(st.audit_events) :
        /\ st.audit_events[k].event_type = type
        /\ st.audit_events[k].instance_id = instanceId
        /\ st.audit_events[k].detail = detail

\* C24: state never silently diverges from the audit log: when the state
\* change of an operation is in the committed snapshot (an instance exists,
\* an instance or a tenant is in a state other than the one it was created
\* in) and no caller is still inside such an operation, so that every
\* caller has got its result, the event of the operation is in the log.
C24_NoSilentDivergence ==
    /\ \A i \in DOMAIN state.instances :
        /\ (~\E p \in Procs : pc[p] # "idle" /\ loc[p].op = "createInstance"
                                /\ loc[p].input.instance_id = i)
           => \E k \in 1..Len(state.audit_events) :
                /\ state.audit_events[k].event_type = "instance_created"
                /\ state.audit_events[k].instance_id = i
        /\ (/\ state.instances[i].state # "active"
            /\ ~inFlight("setInstanceState", <<i, state.instances[i].state>>))
           => logged(state, "instance_state_changed", i, <<state.instances[i].state>>)
    /\ \A t \in DOMAIN state.tenants :
        /\ (/\ state.tenants[t].state # "active"
            /\ ~inFlight("setTenantState", <<t, state.tenants[t].state>>))
           => logged(state, "tenant_state_changed", "", <<t, state.tenants[t].state>>)
        /\ (/\ state.tenants[t].entitlement_state # "active"
            /\ ~inFlight("setTenantEntitlement", <<t, state.tenants[t].entitlement_state>>))
           => logged(state, "tenant_entitlement_changed", "",
                     <<t, state.tenants[t].entitlement_state>>)


\* C25: the audit event sequence is append-only: every event of the
\* committed log is present, unchanged and at the same position in the
\* log after every step.
C25_AuditLogAppendOnly ==
    [][\A k \in 1..Len(state.audit_events) :
        /\ k <= Len(state'.audit_events)
        /\ state'.audit_events[k] = state.audit_events[k]]_vars


\* Callers validating tokens while the clock advances
InitValidate == InitOver({SnapEnrolled})

NextValidate ==
    \/ Tick
    \/ \E p \in Procs : Commit(p) \/ validateOps(p)

SpecValidate == InitValidate /\ [][NextValidate]_vars

\* C26: every validate call that fails appends a token_validate_denied
\* event carrying the reason code it returns: a caller gets a failure only
\* from the commit of a transaction whose log ends with that event.
C26_ValidateFailureAudited ==
    [][\A p \in Procs :
        (/\ pc[p] # "validate_return"
         /\ pc'[p] = "validate_return"
         /\ ~loc'[p].success)
        => /\ pc[p] = "commit"
           /\ Len(state'.audit_events) > 0
           /\ LET last == state'.audit_events[Len(state'.audit_events)]
              IN /\ last.event_type = "token_validate_denied"
                 /\ last.detail = <<loc'[p].reason_code>>]_vars


\* C27: each setOutageMode(active) call writes the flag and appends one
\* control_plane_outage_mode_changed event whose outage_active value is the
\* value that call wrote, however it interleaves with other setOutageMode
\* calls: the commit of its first transaction leaves the flag at active,
\* and the event it hands to the recorder carries active.
C27_OutageEventCarriesWrittenValue ==
    [][\A p \in Procs :
        /\ (/\ pc[p] = "commit" /\ pc'[p] = "outage_read")
           => state'.outage_active = loc[p].input
        /\ (/\ pc[p] = "outage_read" /\ pc'[p] = "audit")
           => loc'[p].event = AuditEvent("control_plane_outage_mode_changed", "",
                                         <<loc[p].input>>)
        /\ (/\ pc[p] = "audit" /\ pc'[p] = "commit" /\ loc[p].op = "setOutageMode")
           => work'[p].st.audit_events = Append(state.audit_events, loc[p].event)]_vars


\* One operator bootstrapping an instance: issue, exchange, mint
InitBootstrap == InitOver({SnapInstance, SnapIssued})

NextBootstrap ==
    \/ Tick
    \/ storeSteps(Operator)
    \/ issueEnrollmentCode(Operator)
    \/ issueReadInstance(Operator)
    \/ issueStore(Operator)
    \/ exchangeEnrollmentCode(Operator)
    \/ mintToken(Operator)
    \/ mintLookupInstance(Operator)
    \/ mintLookupTenant(Operator)
    \/ mintDecide(Operator)

SpecBootstrap == InitBootstrap /\ [][NextBootstrap]_vars

\* instance i of snapshot st is ready for enrollment: active, without
\* credentials, of an active entitled tenant, outage mode off
bootstrapReady(st, i) ==
    /\ Has(st.instances, i)
    /\ st.instances[i].state = "active"
    /\ ~IsSet(st.instances[i].client_credentials)
    /\ Has(st.tenants, st.instances[i].tenant_id)
    /\ st.tenants[st.instances[i].tenant_id].state = "active"
    /\ st.tenants[st.instances[i].tenant_id].entitlement_state = "active"
    /\ ~st.outage_active

\* what mintToken decides on snapshot st for the client, secret and scope
mintGranted(st, cid, secret, scope, nowIso) ==
    /\ isServiceScope(scope)
    /\ ~st.outage_active
    /\ Has(st.client_id_to_instance, cid)
    /\ Has(st.instances, st.client_id_to_instance[cid])
    /\ LET instance == st.instances[st.client_id_to_instance[cid]]
       IN /\ IsSet(instance.client_credentials)
          /\ mintDecision(mintRequest(None, cid, secret, scope),
                          maybeGet(st.tenants, instance.tenant_id), instance, nowIso)
                = "none"

\* C28: for an active, entitled tenant and an active instance without
\* credentials, with outage mode off, the exchange of an issued, unused code
\* no later than its expiry succeeds and leaves credentials under which a
\* mint with the returned client id and secret is granted for every allowed
\* scope, now and later; and a mint the operator makes with the secret of
\* such credentials returns success.
C28_EnrollmentRoundTrip ==
    [][\A p \in Procs :
        /\ (/\ pc[p] = "idle"
            /\ pc'[p] # "idle"
            /\ loc'[p].op = "exchangeEnrollmentCode"
            /\ Has(state.enrollment_records, codeIdOf(loc'[p].input))
            /\ LET record == state.enrollment_records[codeIdOf(loc'[p].input)]
               IN /\ ~IsSet(record.used_at)
                  /\ clock <= record.expires_at
                  /\ bootstrapReady(state, record.instance_id))
           => /\ pc'[p] = "commit"
              /\ loc'[p].success
              /\ LET record == state.enrollment_records[codeIdOf(loc'[p].input)]
                     st == work'[p].st
                     instance == st.instances[record.instance_id]
                 IN /\ IsSet(instance.client_credentials)
                    /\ \A scope \in SeqToSet(instance.allowed_services) :
                        \A nowIso \in clock..MaxTime :
                            mintGranted(st, getCreds(instance).client_id,
                                        secretOf(rng), scope, nowIso)
        /\ (/\ pc[p] = "commit"
            /\ pc'[p] = "idle"
            /\ loc[p].op = "mintToken"
            /\ mintGranted(state, loc[p].input.client_id, loc[p].input.client_secret,
                           loc[p].input.service_scope, clock))
           => /\ loc[p].success
              /\ state'.audit_events[Len(state'.audit_events)].event_type
                    = "token_minted"]_vars

\* the operator has exchanged a code and then minted with the credentials
\* the exchange returned
C28_Witness ==
    /\ ops = 2
    /\ pc[Operator] = "idle"
    /\ Len(state.audit_events) >= 2
    /\ LET n == Len(state.audit_events)
       IN /\ state.audit_events[n].event_type = "token_minted"
          /\ state.audit_events[n - 1].event_type = "enrollment_code_exchanged"


\* Callers exchanging known and unknown codes while the clock advances
InitExchange == InitOver({SnapIssued, SnapReissued})

NextExchange ==
    \/ Tick
    \/ \E p \in Procs : Commit(p) \/ Audit(p) \/ exchangeEnrollmentCode(p)

SpecExchange == InitExchange /\ [][NextExchange]_vars

\* the record snapshot st holds for enrollment code k, None when the code
\* is unknown
codeRecord(st, k) ==
    IF /\ Has(st.code_hash_to_id, sha256Hex(enrollCodeOf(k)))
       /\ Has(st.enrollment_records, st.code_hash_to_id[sha256Hex(enrollCodeOf(k))])
    THEN Some(st.enrollment_records[st.code_hash_to_id[sha256Hex(enrollCodeOf(k))]])
    ELSE None

hasCredentials(st, i) ==
    Has(st.instances, i) /\ IsSet(st.instances[i].client_credentials)

\* every exchange call that starts in this step on code k returns what
\* expected(k) says ("none": no denial is due)
exchangeReturns(expected(_)) ==
    \A p \in Procs :
        (/\ pc[p] = "idle"
         /\ pc'[p] # "idle"
         /\ loc'[p].op = "exchangeEnrollmentCode"
         /\ expected(loc'[p].input) # "none")
        => /\ ~loc'[p].success
           /\ loc'[p].reason_code = expected(loc'[p].input)
           /\ loc'[p].event.event_type = "token_mint_denied"
           /\ work'[p].st = state

InitVersions == InitOver({SnapIssued, SnapEnrolled, SnapAdopted})

NextVersions ==
    \E p \in Procs :
        \/ storeSteps(p)
        \/ exchangeEnrollmentCode(p)
        \/ startRotation(p)
        \/ startAddNext(p)
        \/ completeRotation(p)

SpecVersions == InitVersions /\ [][NextVersions]_vars

\* the numbers of the version ids of instance i in snapshot st, in the
\* order the versions were added
versionNumbers(st, i) ==
    LET ids == versionIds(getCreds(st.instances[i]))
    IN [k \in 1..Len(ids) |-> parseSecretVersionNumber(ids[k])]

\* C30: each newly allocated secret version id is sv_<N> with N one more
\* than the largest number among the instance's version ids in the snapshot
\* the allocating transaction works on (none: N is 1), and in every
\* reachable state the version ids of an instance are unique and their
\* numbers increase in the order the versions were added.
C30_VersionIdsIncrease ==
    /\ [](\A i \in enrolledInstances(state) :
            \A j, k \in 1..Len(versionNumbers(state, i)) :
                j < k => versionNumbers(state, i)[j] < versionNumbers(state, i)[k])
    /\ [][\A p \in Procs :
            /\ (/\ pc[p] = "start_mutate"
                /\ pc'[p] = "commit")
               => LET i == loc[p].input.instance_id
                      before == getCreds(state.instances[i]).secret_versions
                      after == getCreds(work'[p].st.instances[i]).secret_versions
                  IN /\ Len(after) = Len(before) + 1
                     /\ SubSeq(after, 1, Len(before)) = before
                     /\ after[Len(after)].version_id
                            = svId(maxVersionNumber(versionIds(
                                        getCreds(state.instances[i]))) + 1)
                     /\ loc'[p].version_id = after[Len(after)].version_id
            /\ (/\ pc[p] = "idle"
                /\ pc'[p] = "commit"
                /\ loc'[p].op = "exchangeEnrollmentCode"
                /\ loc'[p].success)
               => LET i == state.enrollment_records[codeIdOf(loc'[p].input)].instance_id
                  IN versionIds(getCreds(work'[p].st.instances[i])) = <<svId(1)>>]_vars


\* a third version was allocated after the promotion of the second
C30_Witness ==
    /\ ops = 2
    /\ \E i \in enrolledInstances(state) :
        /\ versionIds(getCreds(state.instances[i])) = <<svId(1), svId(2), svId(3)>>
        /\ getCreds(state.instances[i]).next_secret_version_id = Some(svId(3))


\* allowed_services of every instance holds known scopes only, in
\* ascending order and without duplicates
servicesNormalized(st) ==
    \A i \in DOMAIN st.instances :
        LET services == st.instances[i].allowed_services
        IN /\ \A k \in 1..Len(services) : isServiceScope(services[k])
           /\ \A j, k \in 1..Len(services) :
                j < k => scopeRank(services[j]) < scopeRank(services[k])

\* C31: in every reachable state every instance's allowed_services is a
\* subset of {reg, rrs}, stored sorted and without duplicates, and not
\* empty.
C31_AllowedServicesNormalizedNonEmpty ==
    /\ servicesNormalized(state)
    /\ \A i \in DOMAIN state.instances : state.instances[i].allowed_services # <<>>



\* the token is one mintToken signs: three segments, the signing key, all
\* claims of the right type, a known scope, this issuer
wellFormedToken(token) ==
    /\ verifyJwt(token, SigningKey).valid
    /\ \A k \in {"iss", "sub", "aud", "jti", "service_scope", "tenant_id",
                 "instance_id", "source"} : IsSet(parseStringClaim(token.payload, k))
    /\ \A k \in {"iat", "exp"} : IsSet(parseNumericClaim(token.payload, k))
    /\ isServiceScope(token.payload.service_scope.s)
    /\ token.payload.iss.s = Issuer

\* C32: for a well-formed, correctly signed token (and no other expected
\* scope than its own), a validate call made when now equals
\* exp + clock_skew_seconds succeeds, and one made when now equals
\* exp + clock_skew_seconds + 1 fails with denied_token_expired.
C32_ExpiryBoundary ==
    [][\A p \in Procs :
        (/\ pc[p] = "idle"
         /\ pc'[p] # "idle"
         /\ loc'[p].op = "validateToken"
         /\ wellFormedToken(loc'[p].input.access_token))
        => LET request == loc'[p].input
               exp == request.access_token.payload.exp.n
               scope == request.access_token.payload.service_scope.s
           IN /\ (/\ clock = exp + TokenClockSkew
                  /\ request.expected_service_scope \in {None, Some(scope)})
                 => /\ loc'[p].success
                    /\ loc'[p].reason_code = "none"
              /\ clock = exp + TokenClockSkew + 1
                 => /\ ~loc'[p].success
                    /\ loc'[p].reason_code = "denied_token_expired"]_vars

\* a token has been accepted at the boundary after the clock advanced
C32_Witness ==
    \E p \in Procs :
        /\ pc[p] = "commit"
        /\ loc[p].op = "validateToken"
        /\ loc[p].success
        /\ clock > 0
        /\ clock = loc[p].input.access_token.payload.exp.n + TokenClockSkew


\* Callers evaluating refresh and in-flight entitlement on degraded and
\* healthy control planes while the clock advances
InitEvaluate == InitOver(DegradedSnapshots)

NextEvaluate ==
    \/ Tick
    \/ \E p \in Procs : evaluationOps(p)

SpecEvaluate == InitEvaluate /\ [][NextEvaluate]_vars

\* C33: while outage mode is active, the refresh evaluation returns
\* retry_within_grace when now equals the token's expires_at plus the grace
\* window, and pause_in_flight one unit of time later.
C33_GraceBoundary ==
    [][\A p \in Procs :
        (/\ pc[p] = "refresh_outage"
         /\ pc'[p] = "evaluated"
         /\ loc[p].outage)
        => /\ clock = loc[p].input + OutageGraceWindow
              => loc'[p].decision =
                    [action |-> "retry_within_grace",
                     reason_code |-> "blocked_auth_control_plane_outage"]
           /\ clock = loc[p].input + OutageGraceWindow + 1
              => loc'[p].decision =
                    [action |-> "pause_in_flight",
                     reason_code |-> "paused_token_refresh_grace_exhausted"]]_vars

\* during an outage a refresh was evaluated one unit past the grace window
\* and paused
C33_Witness ==
    \E p \in Procs :
        /\ pc[p] = "evaluated"
        /\ loc[p].op = "evaluateRefreshDuringOutage"
        /\ state.outage_active
        /\ loc[p].outage
        /\ loc[p].now = loc[p].input + OutageGraceWindow + 1
        /\ loc[p].decision.action = "pause_in_flight"


\* C34: when the in-flight entitlement evaluation does not return continue,
\* the reason is paused_instance_disabled when the instance is missing, or
\* when it is not active and nothing is wrong with the tenant (only the
\* instance is the problem), and paused_entitlement_disabled when the
\* instance exists and the tenant's state or entitlement is not active;
\* the action is pause at a chunk boundary and continue_until_chunk_boundary
\* otherwise.  It returns continue exactly when nothing is wrong.
C34_InFlightReason ==
    [][\A p \in Procs :
        (/\ pc[p] = "inflight_instance"
         /\ pc'[p] = "evaluated")
        => LET instance == loc[p].instance
               tenant == maybeGet(state.tenants, Val(instance).tenant_id)
               tenantProblem == \/ ~IsSet(tenant)
                                \/ Val(tenant).state # "active"
                                \/ Val(tenant).entitlement_state # "active"
               decision == loc'[p].decision
           IN /\ ~IsSet(instance) => decision.reason_code = "paused_instance_disabled"
              /\ (IsSet(instance) /\ tenantProblem)
                 => decision.reason_code = "paused_entitlement_disabled"
              /\ (IsSet(instance) /\ ~tenantProblem /\ Val(instance).state # "active")
                 => decision.reason_code = "paused_instance_disabled"
              /\ decision.action = "continue"
                 <=> (IsSet(instance) /\ ~tenantProblem /\ Val(instance).state = "active")
              /\ decision.action # "continue"
                 => decision.action = IF loc[p].input[2] THEN "pause"
                                      ELSE "continue_until_chunk_boundary"]_vars

\* an evaluation met a suspended instance of a suspended tenant and blamed
\* the entitlement
C34_Witness ==
    \E p \in Procs :
        /\ pc[p] = "evaluated"
        /\ loc[p].op = "evaluateInFlightEntitlement"
        /\ IsSet(loc[p].instance)
        /\ Val(loc[p].instance).state # "active"
        /\ Val(loc[p].tenant).state # "active"
        /\ loc[p].decision.reason_code = "paused_entitlement_disabled"


\* Callers recording events with metadata
InitAudit == InitOver({SnapEmpty})

NextAudit == \E p \in Procs : Commit(p) \/ recordEvent(p)

SpecAudit == InitAudit /\ [][NextAudit]_vars

\* the key ends in secret_version_id
isSecretVersionIdKey(key) ==
    /\ Len(key) >= 3
    /\ SubSeq(toLowerCase(key), Len(key) - 2, Len(key)) = <<"secret", "version", "id">>

\* recorded is supplied with the values of the sensitive keys replaced by
\* [REDACTED] at every depth, those of the
\* secret_version_id keys left as supplied when keepVersionIds
RECURSIVE redactedExcept(_, _, _)
redactedExcept(supplied, recorded, keepVersionIds) ==
    IF supplied.kind = "array"
    THEN /\ recorded.kind = "array"
         /\ Len(recorded.items) = Len(supplied.items)
         /\ \A i \in 1..Len(supplied.items) :
                redactedExcept(supplied.items[i], recorded.items[i], keepVersionIds)
    ELSE IF supplied.kind = "object"
    THEN /\ recorded.kind = "object"
         /\ DOMAIN recorded.fields = DOMAIN supplied.fields
         /\ \A key \in DOMAIN supplied.fields :
                IF keepVersionIds /\ isSecretVersionIdKey(key)
                THEN recorded.fields[key] = supplied.fields[key]
                ELSE IF isSensitive(key) THEN recorded.fields[key] = Str("[REDACTED]")
                ELSE redactedExcept(supplied.fields[key], recorded.fields[key],
                                    keepVersionIds)
    ELSE recorded = supplied

\* the event a record call that starts in this step pushes
recordedAs(ok(_, _)) ==
    \A p \in Procs :
        (/\ pc[p] = "idle" /\ pc'[p] = "commit" /\ loc'[p].op = "record")
        => LET events == work'[p].st.audit_events
           IN /\ Len(events) = Len(state.audit_events) + 1
              /\ ok(loc'[p].input, events[Len(events)].detail)

\* C35: in every recorded audit event, metadata keys whose lowercase form
\* contains secret, enrollment_code or token have the value [REDACTED] at
\* any nesting depth, except keys ending in secret_version_id, whose values
\* are kept as supplied.
C35_MetadataRedactedExceptVersionIds ==
    [][LET ok(supplied, recorded) ==
            redactedExcept(supplied, recorded, TRUE)
       IN recordedAs(ok)]_vars


\* Revokes and starts on an instance whose rotation is under way
InitUnstick == InitOver({SnapRotating, SnapAdopted})
NextUnstick ==
    \/ Tick
    \/ \E p \in Procs :
        storeSteps(p) \/ revokeSecret(p) \/ startRotation(p) \/ startAddNext(p)
SpecUnstick == InitUnstick /\ [][NextUnstick]_vars

\* the next version of instance i in snapshot st, None when there is none
nextVersionOf(st, i) ==
    IF i \in enrolledInstances(st)
    THEN getCreds(st.instances[i]).next_secret_version_id
    ELSE None

\* the transaction of p's revoke of the next version of its instance commits
revokeOfNextCommits(p) ==
    /\ pc[p] = "commit" /\ pc'[p] = "audit"
    /\ loc[p].op = "revokeSecret"
    /\ nextVersionOf(state, loc[p].input.instance_id)
            = Some(loc[p].input.secret_version_id)

\* p's startRotation resumes with the instance as it is in the store, and
\* that instance is STABLE
startResumesOnStable(p) ==
    /\ pc[p] = "start_mutate" /\ pc'[p] # "start_mutate"
    /\ loc[p].instance = maybeGet(state.instances, loc[p].input.instance_id)
    /\ rotationState(state, loc[p].input.instance_id) = "STABLE"

\* C36: rotation is never permanently stuck: in any reachable state in which
\* an instance has a next version (adopted or not, past its valid_until or
\* not), the commit of a revoke of that next version leaves the instance
\* STABLE, and a startRotation on a STABLE instance begins a transaction
\* that succeeds and adds a version id the instance never had as its next
\* version.
C36_RevokeOfNextUnsticksRotation ==
    [][\A p \in Procs :
        /\ revokeOfNextCommits(p)
            => rotationState(state', loc[p].input.instance_id) = "STABLE"
        /\ startResumesOnStable(p)
            => LET i == loc[p].input.instance_id
                   before == SeqToSet(versionIds(getCreds(state.instances[i])))
               IN /\ pc'[p] = "commit"
                  /\ loc'[p].version_id \notin before
                  /\ nextVersionOf(work'[p].st, i) = Some(loc'[p].version_id)
                  /\ rotationState(work'[p].st, i) = "ROTATING"]_vars

\* C36 happens: the next version sv_2 was revoked, adopted or not, and the
\* start that followed made sv_3 the next version, after sv_2's valid_until
C36_Witness ==
    /\ "i1" \in enrolledInstances(state)
    /\ svId(2) \in revokedVersions(state, "i1")
    /\ nextVersionOf(state, "i1") = Some(svId(3))
    /\ clock > 0


\* A mint whose three reads are spread over changes of the outage flag and
\* of the tenant: the snapshot has the outage mode off and the tenant
\* suspended, and the Operator's mintToken has passed its grant and scope
\* checks and read the outage flag.  The store is the one that serializes
\* its writers.
SnapSuspendedTenant == SnapDegraded("suspended", "active", "active", <<"reg", "rrs">>, FALSE)

InitSeparateReads ==
    /\ storeKind = "postgres"
    /\ state = SnapSuspendedTenant.st
    /\ rng = SnapSuspendedTenant.rng
    /\ version = SnapSuspendedTenant.version
    /\ lock = NoProc
    /\ clock = 0
    /\ \E request \in {r \in mintRequests(SnapSuspendedTenant.st) :
                            /\ ~IsSet(r.grant_type)
                            /\ isServiceScope(r.service_scope)} :
        /\ pc = [p \in Procs |-> IF p = Operator THEN "mint_outage" ELSE "idle"]
        /\ loc = [p \in Procs |->
                    IF p = Operator
                    THEN [op |-> "mintToken", input |-> request,
                          outage |-> SnapSuspendedTenant.st.outage_active]
                    ELSE Idle]
    /\ work = [p \in Procs |-> NoWork]
    /\ ops = 0
    /\ hist = [exchanged |-> <<>>, started |-> <<>>]

NextSeparateReads ==
    \E p \in Procs :
        \/ Commit(p) \/ Audit(p)
        \/ outageOps(p)
        \/ setTenantState(p)
        \/ mintLookupInstance(p) \/ mintLookupTenant(p) \/ mintDecide(p)
        \/ mintRecordAdoption(p) \/ mintFinal(p)

\* the steps that resume a call in flight: every awaited read and transaction
\* of the stores settles, so the event loop runs each pending continuation
ResumeSeparateReads ==
    \E p \in Procs :
        \/ Commit(p) \/ Audit(p)
        \/ setOutageModeRead(p)
        \/ mintLookupInstance(p) \/ mintLookupTenant(p) \/ mintDecide(p)
        \/ mintRecordAdoption(p) \/ mintFinal(p)

SpecSeparateReads ==
    /\ InitSeparateReads
    /\ [][NextSeparateReads]_vars
    /\ WF_pc(ResumeSeparateReads)

\* snapshot st at time nowIso grants the request: outage mode off, the
\* client's instance and its tenant pass every rule of the mint
grantedBy(st, nowIso, request) ==
    /\ ~st.outage_active
    /\ Has(st.client_id_to_instance, request.client_id)
    /\ LET i == st.client_id_to_instance[request.client_id]
       IN /\ Has(st.instances, i)
          /\ IsSet(st.instances[i].client_credentials)
          /\ mintDecision(request, maybeGet(st.tenants, st.instances[i].tenant_id),
                          st.instances[i], nowIso) = "none"

\* p's mint of the request has been granted
mintSucceeded(p, request) ==
    /\ loc[p].op = "mintToken"
    /\ loc[p].input = request
    /\ "success" \in DOMAIN loc[p]
    /\ loc[p].success

\* C37: a mint succeeds only if some single committed snapshot between the
\* mint's start and its return has the outage mode off, the tenant active
\* and entitled, the instance active, the scope allowed and the presented
\* secret active: in a behaviour in which no snapshot from the mint's outage
\* read on grants the request, the mint of that request never succeeds.
C37_MintNeedsOneGrantingSnapshot ==
    \A request \in mintRequests(SnapSuspendedTenant.st) :
        ([]~grantedBy(state, clock, request))
            => [](\A p \in Procs : ~mintSucceeded(p, request))


\* the positions of the secret_rotation_adopted events of version v of
\* instance i in the audit log of snapshot st
adoptionEvents(st, i, v) ==
    {k \in 1..Len(st.audit_events) :
        /\ st.audit_events[k].event_type = "secret_rotation_adopted"
        /\ st.audit_events[k].instance_id = i
        /\ st.audit_events[k].detail = <<v>>}

\* C38: for each secret version at most one secret_rotation_adopted audit
\* event is ever recorded, for every interleaving of concurrent mints that
\* present the next secret.
C38_AdoptionRecordedOnce ==
    \A i \in DOMAIN state.instances :
        \A n \in 1..(MaxOps + 2) :
            Cardinality(adoptionEvents(state, i, svId(n))) <= 1


\* Exchanges of two codes issued for the same instance, which has no
\* credentials yet
SnapTwoCodes ==
    ranAlone(SnapIssued,
             issueTx(SnapIssued.st, codeIdOf(1),
                     [code_hash |-> sha256Hex(enrollCodeOf(1)), tenant_id |-> "t1",
                      instance_id |-> "i1", issued_at |-> 0, expires_at |-> 0,
                      used_at |-> None]),
             AuditEvent("enrollment_code_issued", "i1", <<codeIdOf(1), 0>>), 1)

InitReenroll == InitOver({SnapTwoCodes})

NextReenroll == \E p \in Procs : Commit(p) \/ Audit(p) \/ exchangeEnrollmentCode(p)

SpecReenroll == InitReenroll /\ [][NextReenroll]_vars

\* C39: once an instance has client credentials, its client_id never changes
\* and its credentials are never replaced by a later enrollment, for every
\* interleaving of exchanges of different codes issued for that instance:
\* no step changes the client_id of an enrolled instance, and the commit of
\* an exchange leaves the credentials of every enrolled instance as they
\* were.
C39_CredentialsEnrolledOnce ==
    [][\A i \in enrolledInstances(state) :
        /\ i \in enrolledInstances(state')
        /\ getCreds(state'.instances[i]).client_id = getCreds(state.instances[i]).client_id
        /\ \A p \in Procs :
            (/\ pc[p] = "commit" /\ pc'[p] # "commit"
             /\ loc[p].op = "exchangeEnrollmentCode")
            => getCreds(state'.instances[i]) = getCreds(state.instances[i])]_vars


\* Rotations that are completed or called off while the clock advances
InitUsable == InitOver({SnapRotating, SnapAdopted})
NextUsable ==
    \/ Tick
    \/ \E p \in Procs :
        \/ storeSteps(p)
        \/ startRotation(p) \/ startAddNext(p)
        \/ completeRotation(p)
        \/ revokeSecret(p)
SpecUsable == InitUsable /\ [][NextUsable]_vars

\* the versions of instance i in snapshot st that a mint at nowIso could
\* match
usableVersions(st, i, nowIso) ==
    {v.version_id : v \in {w \in SeqToSet(getCreds(st.instances[i]).secret_versions) :
                                isSecretActive(w, nowIso)}}

\* the current version of instance i in snapshot st and, if there is one,
\* its next version
pointedVersions(st, i) ==
    {getCreds(st.instances[i]).current_secret_version_id}
        \cup {v \in SeqToSet(versionIds(getCreds(st.instances[i]))) :
                getCreds(st.instances[i]).next_secret_version_id = Some(v)}

\* C40: in every reachable state every secret version that could match a
\* mint (revoked_at unset, and valid_until unset or not yet passed) is
\* either the current or the next version of its instance.
C40_UsableVersionsArePointedAt ==
    \A i \in enrolledInstances(state) :
        usableVersions(state, i, clock) \subseteq pointedVersions(state, i)

\* C40 happens: an instance holds a version that is neither its current nor
\* its next version any more, next to a version a mint can match
C40_Witness ==
    \E i \in enrolledInstances(state) :
        /\ SeqToSet(versionIds(getCreds(state.instances[i]))) \ pointedVersions(state, i) # {}
        /\ usableVersions(state, i, clock) # {}

====
